---- MODULE Spec2Model ----
(***************************************************************************)
(* PDF2Epub: the resumable page pipeline (main.py process_pdf), its state  *)
(* store (utils/cache.py CacheManager, three SQLite tables) and the        *)
(* interrupt handler (utils/signal_handler.py).                            *)
(*                                                                         *)
(* Python None is the record None; an SQL table is a set of rows; a query  *)
(* whose ORDER BY leaves the order of equal keys open is the set of rows   *)
(* it may return.                                                          *)
(***************************************************************************)
EXTENDS Integers, Sequences, FiniteSets, TLC

\* ---------------------------------------------------------------- bounds
MaxClock == 1
MaxPageSaves == 3
MaxCheckpointSaves == 4
PageCount == 2
MaxRuns == 2
MaxClears == 2
MaxRetryCount == 3          \* the configured retry_count ranges over 0 .. MaxRetryCount
MaxOcrCalls == 2            \* ocr_page calls on one OCRProcessor
MaxBuilderCalls == 3        \* add_page / add_metadata calls on one EPUBBuilder

\* CacheManager.__init__(..., max_checkpoints=3): the configured retention,
\* any number; the model runs it small
max_checkpoints == 2
\* CacheManager(checkpoint_interval=10): the configured number of pages
\* between two checkpoints; any number, the model runs it small
checkpoint_interval == 2

\* ------------------------------------------------------------ value sets
\* a source path is <<directory, file name>>
Paths == {<<"a", "x.pdf">>, <<"b", "x.pdf">>, <<"a", "y.pdf">>}
\* the document the pipeline is run on
InputPaths == {<<"a", "x.pdf">>}
Texts == {"t1", "t2"}
Htmls == {"h1", "h2"}
PageTypes == {"base", "toc"}
\* Python values a caller passes as a checkpoint's state
CheckpointStates == {"None", "{'status': 'processing'}"}
Pages == 0 .. (PageCount - 1)
\* arguments of direct calls of the store (SQLite does not enforce the
\* FOREIGN KEY clauses, so any task id is accepted)
TaskIdInputs == {<<0, "x.pdf">>, <<1, "x.pdf">>}
PageInputs == {0, 1}

None == [none |-> TRUE]
\* a metadata dict, as far as the store reads it: key "pages" is absent or
\* holds one number
EmptyDict == [pages |-> {}]
\* the metadata a caller passes to create_task (None: the default)
Metadatas == {None, [pages |-> {-1}], [pages |-> {0}], [pages |-> {1}], [pages |-> {2}]}
\* arguments (file_path, metadata) of direct create_task calls
CreateInputs == {<<<<"a", "x.pdf">>, [pages |-> {2}]>>, <<<<"b", "x.pdf">>, [pages |-> {0}]>>,
                 <<<<"a", "y.pdf">>, None>>}
\* task_id = None
NoTask == <<-1, "">>
\* _current_state = {}: each key holds at most one value
EmptyState == [task_id |-> {}, page_num |-> {}]

VARIABLES
    clock,          \* the wall clock's last reading, in whole seconds
    tasks,          \* table tasks
    page_cache,     \* table page_cache
    checkpoints,    \* table checkpoints
    seq_cp,         \* sqlite_sequence of checkpoints (AUTOINCREMENT)
    createResult,   \* outcome of the last create_task call
    taskLog,        \* history: the task rows inserted, in call order
    pageLog,        \* history: per (task, page), the last content saved directly
    nPageSaves,     \* history: number of direct save_page_cache calls
    cpLog,          \* history: the direct save_checkpoint calls, in call order
    \* one process running main.py process_pdf
    pc,             \* where the process is
    runs,           \* number of processes started so far
    task_id,
    start_page,
    page_num,
    text,
    processed_text,
    page_type,
    epub,           \* the pages handed to epub_builder.add_page, in order
    \* utils/signal_handler.py, per process
    sigint,         \* the handler registered for SIGINT
    _cache_manager,
    _current_state,
    \* history of the running process
    resumed,        \* an existing task was found and taken up
    cachedAtStart,  \* page indices of the task that had a PageRecord at start
    pending,        \* the page in flight, without PageRecord, when the previous
                    \* process was interrupted on the task now resumed
    inflight,       \* the page in flight, without PageRecord, at the interrupt
    extractLog,     \* page indices passed to pdf_parser.extract_image
    ocrLog,         \* page indices passed to ocr_processor.ocr_page
    processLog,     \* page indices passed to process_page
    saveLog,        \* page indices passed to save_page_cache
    hitLog,         \* page indices whose PageRecord the loop found
    \* single functions called on their own
    progressCall,   \* the last get_task_progress call: its argument and result
    clearCall,      \* the clear_task_cache calls: how many, the last one's
                    \* argument and the number of rows it deleted
    page,           \* the (image, text) given to process_page, by its features
    classified,     \* what the detector loop of process_page made of page
    \* core/ocr_processor.py, one OCRProcessor
    retry_count,    \* self.retry_count
    total_tokens,   \* self.total_tokens
    ocr_call,       \* the ocr_page call: how far it is and what it has done
    resultLog,      \* history: the results the ocr_page calls returned, in order
    \* the running process, continued
    image_data,     \* what pdf_parser.extract_image returned for page_num
    failure,        \* history: the call that raised in this process, and its page
    cpPages,        \* history: page indices the loop of this process checkpointed
    \* core/epub_builder.py, one EPUBBuilder called on its own
    builder,        \* the EPUBBuilder's fields
    mergeLog,       \* history: the metadata dicts given to add_metadata, in order
    \* the text functions (TextCleaner, EnhancedTextProcessor, TOCProcessor,
    \* TableProcessor) called on their own
    textCall        \* the call: what was written into the text, the text, and
                    \* what the function returned

storeVars == <<clock, tasks, page_cache, checkpoints, seq_cp>>
histVars == <<createResult, taskLog, pageLog, nPageSaves, cpLog>>
procVars == <<pc, runs, task_id, start_page, page_num, text, processed_text,
              page_type, epub, sigint, _cache_manager, _current_state>>
runLogVars == <<resumed, cachedAtStart, pending, inflight, extractLog, ocrLog,
                processLog, saveLog, hitLog>>
fnVars == <<progressCall, clearCall, page, classified>>
ocrVars == <<retry_count, total_tokens, ocr_call, resultLog>>
faultVars == <<image_data, failure, cpPages>>
libVars == <<builder, mergeLog, textCall>>
vars == <<storeVars, histVars, procVars, runLogVars, fnVars, ocrVars, faultVars,
         libVars>>

\* ------------------------------------------------------------- CacheManager
basename(file_path) == file_path[2]

\* tid = f"task_{int(time.time())}_{os.path.basename(file_path)}"
create_task_id(now, file_path) == <<now, basename(file_path)>>

TaskIds(tbl) == {t.id : t \in tbl}

\* metadata_json = json.dumps(metadata) if metadata else "{}"
json_dumps_metadata(metadata) ==
    IF metadata = None \/ metadata = EmptyDict THEN EmptyDict ELSE metadata

\* INSERT INTO tasks: id is the PRIMARY KEY, created_at is CURRENT_TIMESTAMP
\* at the time of the INSERT (inserted_at >= now, the time.time() reading).
create_task(tbl, now, inserted_at, file_path, metadata) ==
    LET tid == create_task_id(now, file_path)
        row == [id |-> tid, file_path |-> file_path,
                metadata |-> json_dumps_metadata(metadata),
                created_at |-> inserted_at]
    IN  IF tid \in TaskIds(tbl)
        THEN [status |-> "IntegrityError", id |-> tid, tasks |-> tbl]
        ELSE [status |-> "ok", id |-> tid, tasks |-> tbl \cup {row}]

\* SELECT * FROM tasks WHERE file_path = ? ORDER BY created_at DESC LIMIT 1:
\* the rows fetchone() may return (rows of equal created_at in either order)
get_task_by_file_path(tbl, file_path) ==
    LET rows == {t \in tbl : t.file_path = file_path}
    IN  IF rows = {} THEN {None}
        ELSE {t \in rows : \A u \in rows : u.created_at <= t.created_at}

PageRow(tid, pn, ocr_text, processed, ptype) ==
    [task_id |-> tid, page_num |-> pn, ocr_text |-> ocr_text,
     processed_text |-> processed, page_type |-> ptype]

\* fault for C5: a plain INSERT into a table without the UNIQUE constraint
save_page_cache_insert(tbl, tid, pn, ocr_text, processed, ptype) ==
    tbl \cup {PageRow(tid, pn, ocr_text, processed, ptype)}

\* fault for C29: the row is not written
save_page_cache_lost(tbl, tid, pn, ocr_text, processed, ptype) == tbl

\* INSERT OR REPLACE INTO page_cache, UNIQUE(task_id, page_num): the
\* conflicting row is deleted, then the new row is inserted. (The columns id
\* and created_at, which no query of the program reads, are left out.)
save_page_cache(tbl, tid, pn, ocr_text, processed, ptype) ==
    {r \in tbl : ~(r.task_id = tid /\ r.page_num = pn)}
      \cup {PageRow(tid, pn, ocr_text, processed, ptype)}

\* fault for C1: a lookup that finds no row
get_page_cache_miss(tbl, tid, pn) == {None}

\* SELECT * FROM page_cache WHERE task_id = ? AND page_num = ?; fetchone():
\* the values it may return
get_page_cache(tbl, tid, pn) ==
    LET rows == {r \in tbl : r.task_id = tid /\ r.page_num = pn}
    IN  IF rows = {} THEN {None} ELSE rows

\* state_json = json.dumps(state) if state else "{}"
json_dumps_state(state) ==
    IF state = "None" THEN "{}" ELSE
    IF state = "{'status': 'processing'}" THEN "{\"status\": \"processing\"}"
    ELSE state

\* if checkpoint["state"]: checkpoint["state"] = json.loads(checkpoint["state"])
json_loads_state(state_json) ==
    IF state_json = "{\"status\": \"processing\"}" THEN "{'status': 'processing'}"
    ELSE state_json

TaskCheckpoints(tbl, tid) == {c \in tbl : c.task_id = tid}

\* SELECT id FROM checkpoints WHERE task_id = ? ORDER BY created_at ASC LIMIT n:
\* the id lists the query may return
OldestCheckpointIds(tbl, tid, n) ==
    LET rows == TaskCheckpoints(tbl, tid)
    IN  {{c.id : c \in S} : S \in
           {S \in SUBSET rows :
               /\ Cardinality(S) = n
               /\ \A c \in S, d \in rows \ S : c.created_at <= d.created_at}}

\* fault for C6: the count is compared with >= and one row too few is deleted
_cleanup_off_by_one(tbl, tid) ==
    LET count == Cardinality(TaskCheckpoints(tbl, tid))
    IN  IF count > max_checkpoints + 1
        THEN {{c \in tbl : c.id \notin old_ids} :
                 old_ids \in OldestCheckpointIds(tbl, tid, count - max_checkpoints - 1)}
        ELSE {tbl}

\* the tables _cleanup_old_checkpoints may leave
_cleanup_old_checkpoints(tbl, tid) ==
    LET count == Cardinality(TaskCheckpoints(tbl, tid))
    IN  IF count > max_checkpoints
        THEN {{c \in tbl : c.id \notin old_ids} :
                 old_ids \in OldestCheckpointIds(tbl, tid, count - max_checkpoints)}
        ELSE {tbl}

\* INSERT INTO checkpoints, then _cleanup_old_checkpoints: the tables that
\* save_checkpoint may leave; the checkpoint id returned is id
save_checkpoint(tbl, id, now, tid, current_page, state) ==
    _cleanup_old_checkpoints(
        tbl \cup {[id |-> id, task_id |-> tid, current_page |-> current_page,
                   state |-> json_dumps_state(state), created_at |-> now]},
        tid)

\* SELECT * FROM checkpoints WHERE task_id = ? ORDER BY id DESC LIMIT 1
get_latest_checkpoint(tbl, tid) ==
    LET rows == TaskCheckpoints(tbl, tid)
    IN  IF rows = {} THEN None
        ELSE LET c == CHOOSE c \in rows : \A d \in rows : d.id <= c.id
             IN  [id |-> c.id, task_id |-> c.task_id, current_page |-> c.current_page,
                  state |-> json_loads_state(c.state), created_at |-> c.created_at]

\* fault for C12: the WHERE clauses are missing
clear_task_cache_all(pagesTbl, cpTbl, tid) ==
    [page_cache |-> {}, checkpoints |-> {}]

\* DELETE FROM page_cache WHERE task_id = ?; DELETE FROM checkpoints WHERE task_id = ?
clear_task_cache(pagesTbl, cpTbl, tid) ==
    [page_cache |-> {r \in pagesTbl : r.task_id # tid},
     checkpoints |-> {c \in cpTbl : c.task_id # tid}]

\* a float that is the quotient of two counts, kept as the quotient
Quotient(n, d) == [num |-> n, den |-> d]

\* fault for C11: the quotient is returned without min(1.0, ...)
get_task_progress_unclamped(tasksTbl, pagesTbl, tid) ==
    LET rows == {t \in tasksTbl : t.id = tid}
    IN  IF rows = {} THEN Quotient(0, 1)
        ELSE LET metadata == (CHOOSE t \in rows : TRUE).metadata
                 total_pages == IF metadata.pages = {} THEN 0
                                ELSE CHOOSE n \in metadata.pages : TRUE
             IN  IF total_pages <= 0 THEN Quotient(0, 1)
                 ELSE Quotient(Cardinality({r \in pagesTbl : r.task_id = tid}),
                               total_pages)

\* SELECT metadata FROM tasks WHERE id = ?; total_pages = metadata.get("pages", 0);
\* SELECT COUNT(*) FROM page_cache WHERE task_id = ?;
\* min(1.0, processed_pages / total_pages)
get_task_progress(tasksTbl, pagesTbl, tid) ==
    LET rows == {t \in tasksTbl : t.id = tid}
    IN  IF rows = {} THEN Quotient(0, 1)
        ELSE LET metadata == (CHOOSE t \in rows : TRUE).metadata
                 total_pages == IF metadata.pages = {} THEN 0
                                ELSE CHOOSE n \in metadata.pages : TRUE
             IN  IF total_pages <= 0 THEN Quotient(0, 1)
                 ELSE LET processed_pages ==
                              Cardinality({r \in pagesTbl : r.task_id = tid})
                          progress == Quotient(processed_pages, total_pages)
                      IN  IF progress.num > progress.den THEN Quotient(1, 1)
                          ELSE progress

\* ------------------------------------------------------------------- Init
\* no single function has been called
FnInit ==
    /\ progressCall = None
    /\ clearCall = [n |-> 0, task_id |-> NoTask, deleted |-> 0]
    /\ page = None
    /\ classified = None

\* ocr_page has not been called
NoOcrCall ==
    [status |-> "idle", n |-> 0, attempt |-> 0, calls |-> 0, errors |-> <<>>,
     sleeps |-> <<>>, result |-> None]

\* OCRProcessor.__init__ without a configured retry_count: fallback=3
OcrFnInit ==
    /\ retry_count = 3
    /\ total_tokens = 0
    /\ ocr_call = NoOcrCall
    /\ resultLog = <<>>

\* EPUBBuilder.__init__; the default title and author stand for the
\* Chinese literals of the source
NewBuilder ==
    [title |-> "default_title", author |-> "default_author", publisher |-> "",
     isbn |-> "", chapters |-> <<>>, toc_entries |-> <<>>,
     processed_page_types |-> [t \in {"cover", "publication_info", "toc", "preface",
                                      "afterword"} |-> FALSE],
     current_chapter |-> "", current_section |-> ""]

BuilderInit ==
    /\ builder = NewBuilder
    /\ mergeLog = <<>>

\* no text function has been called
NoTextCall == [fn |-> "none", written |-> <<>>, text |-> <<>>]

LibInit ==
    /\ BuilderInit
    /\ textCall = NoTextCall

StoreInit ==
    /\ clock = 0
    /\ tasks = {}
    /\ page_cache = {}
    /\ checkpoints = {}
    /\ seq_cp = 0

\* no call has been made, no process has been started
ProcInit ==
    /\ createResult = [status |-> "none", id |-> <<0, "">>, file_path |-> <<"", "">>]
    /\ taskLog = <<>>
    /\ pageLog = [k \in TaskIdInputs \X PageInputs |-> None]
    /\ nPageSaves = 0
    /\ cpLog = <<>>
    /\ pc = "idle"
    /\ runs = 0
    /\ task_id = NoTask
    /\ start_page = 0
    /\ page_num = 0
    /\ text = ""
    /\ processed_text = ""
    /\ page_type = ""
    /\ epub = <<>>
    /\ sigint = "default"
    /\ _cache_manager = "None"
    /\ _current_state = EmptyState
    /\ resumed = FALSE
    /\ cachedAtStart = {}
    /\ pending = {}
    /\ inflight = {}
    /\ extractLog = {}
    /\ ocrLog = {}
    /\ processLog = {}
    /\ saveLog = {}
    /\ hitLog = {}
    /\ image_data = "None"
    /\ failure = None
    /\ cpPages = {}

Init == StoreInit /\ ProcInit /\ FnInit /\ OcrFnInit /\ LibInit

\* --------------------------------------------- the store, called directly
\* the readings the wall clock may give at the next call: time has passed
Now == clock .. MaxClock

CreateTask ==
    \E input \in CreateInputs, now \in Now, inserted_at \in Now :
      LET file_path == input[1]
          metadata == input[2]
      IN
        /\ inserted_at \in {now, now + 1}
        /\ LET res == create_task(tasks, now, inserted_at, file_path, metadata)
           IN  /\ tasks' = res.tasks
               /\ createResult' = [status |-> res.status, id |-> res.id,
                                   file_path |-> file_path]
               /\ taskLog' = IF res.status = "ok"
                             THEN Append(taskLog, [id |-> res.id, file_path |-> file_path])
                             ELSE taskLog
        /\ clock' = inserted_at
        /\ UNCHANGED <<libVars, fnVars, ocrVars, faultVars>>
        /\ UNCHANGED <<page_cache, checkpoints, seq_cp, pageLog, nPageSaves, cpLog,
                       procVars, runLogVars>>

SavePageCache ==
    \E tid \in TaskIdInputs, pn \in PageInputs,
       ocr_text \in Texts, processed \in Htmls, ptype \in PageTypes :
        /\ nPageSaves < MaxPageSaves
        /\ nPageSaves' = nPageSaves + 1
        /\ page_cache' = save_page_cache(page_cache, tid, pn,
                                         ocr_text, processed, ptype)
        /\ pageLog' = [pageLog EXCEPT ![<<tid, pn>>] =
                PageRow(tid, pn, ocr_text, processed, ptype)]
        /\ UNCHANGED <<libVars, fnVars, ocrVars, faultVars>>
        /\ UNCHANGED <<clock, tasks, checkpoints, seq_cp, createResult, taskLog, cpLog,
                       procVars, runLogVars>>

SaveCheckpoint ==
    \E tid \in TaskIdInputs, current_page \in PageInputs, state \in CheckpointStates,
       now \in Now :
        /\ Len(cpLog) < MaxCheckpointSaves
        /\ seq_cp' = seq_cp + 1
        /\ clock' = now
        /\ checkpoints' \in save_checkpoint(checkpoints, seq_cp + 1, now, tid,
                                            current_page, state)
        /\ cpLog' = Append(cpLog,
                [id |-> seq_cp + 1, task_id |-> tid, current_page |-> current_page,
                 state |-> state])
        /\ UNCHANGED <<libVars, fnVars, ocrVars, faultVars>>
        /\ UNCHANGED <<tasks, page_cache, createResult, taskLog, pageLog, nPageSaves,
                       procVars, runLogVars>>

\* ----------------------------------------------------- main.py process_pdf
Running == {"loop", "extract", "ocr", "process", "save", "add", "checkpoint"}
Ended == {"idle", "done", "failed", "interrupted"}

\* highest contiguous cached page index + 1 (0 when page 0 is not cached)
HighWater(cached) ==
    IF cached = {} THEN 0
    ELSE CHOOSE n \in 0 .. (1 + Cardinality(cached)) :
             /\ n \notin cached
             /\ \A i \in 0 .. (n - 1) : i \in cached

CachedPages(tbl, tid) == {r.page_num : r \in {q \in tbl : q.task_id = tid}}

\* start_page = checkpoint['current_page'] + 1 when the task has a checkpoint
StartPage(checkpoint) ==
    IF checkpoint = None THEN 0 ELSE checkpoint.current_page + 1

\* fault for C4: the raw text of the PageRecord is replayed
CachedPageRaw(cache) == <<cache.ocr_text, cache.page_type>>

\* processed_text = cache['processed_text']; page_type = cache['page_type']
CachedPage(cache) == <<cache.processed_text, cache.page_type>>

\* A process is started on file_path: the code from the resume lookup to the
\* head of the page loop. The module state of the new process is fresh.
StartRun ==
    \E file_path \in InputPaths, resume \in BOOLEAN, now \in Now, inserted_at \in Now :
        /\ pc \in Ended
        /\ runs < MaxRuns
        /\ inserted_at \in {now, now + 1}
        /\ runs' = runs + 1
        /\ \E task \in (IF resume THEN get_task_by_file_path(tasks, file_path) ELSE {None}) :
             IF task # None
             THEN \* an existing task is taken up
                  /\ task_id' = task.id
                  /\ start_page' = StartPage(get_latest_checkpoint(checkpoints, task.id))
                  /\ page_num' = start_page'
                  /\ pc' = "loop"
                  /\ resumed' = TRUE
                  /\ cachedAtStart' = CachedPages(page_cache, task.id)
                  /\ pending' = IF pc = "interrupted" /\ task_id = task.id
                                THEN inflight ELSE {}
                  /\ now = clock /\ inserted_at = clock
                  /\ UNCHANGED <<clock, tasks, createResult, taskLog>>
             ELSE \* task_id = cache_manager.create_task(args.input, metadata)
                  LET metadata == [pages |-> {PageCount}]
                      res == create_task(tasks, now, inserted_at, file_path, metadata)
                  IN  /\ tasks' = res.tasks
                      /\ clock' = inserted_at
                      /\ createResult' = [status |-> res.status, id |-> res.id,
                                          file_path |-> file_path]
                      /\ taskLog' = IF res.status = "ok"
                                    THEN Append(taskLog,
                                                [id |-> res.id, file_path |-> file_path])
                                    ELSE taskLog
                      /\ task_id' = IF res.status = "ok" THEN res.id ELSE NoTask
                      /\ pc' = IF res.status = "ok" THEN "loop" ELSE "failed"
                      /\ start_page' = 0
                      /\ page_num' = 0
                      /\ resumed' = FALSE
                      /\ cachedAtStart' = {}
                      /\ pending' = {}
        /\ text' = ""
        /\ processed_text' = ""
        /\ page_type' = ""
        /\ epub' = <<>>
        /\ sigint' = "default"
        /\ _cache_manager' = "None"
        /\ _current_state' = EmptyState
        /\ inflight' = {}
        /\ extractLog' = {}
        /\ ocrLog' = {}
        /\ processLog' = {}
        /\ saveLog' = {}
        /\ hitLog' = {}
        /\ image_data' = "None"
        /\ failure' = None
        /\ cpPages' = {}
        /\ UNCHANGED <<libVars, fnVars, ocrVars>>
        /\ UNCHANGED <<page_cache, checkpoints, seq_cp, pageLog, nPageSaves, cpLog>>

\* The process ends before the loop is through: its memory is gone, the
\* database stays.
ProcessExits ==
    /\ start_page' = 0
    /\ page_num' = 0
    /\ text' = ""
    /\ processed_text' = ""
    /\ page_type' = ""
    /\ epub' = <<>>
    /\ sigint' = "default"
    /\ _cache_manager' = "None"
    /\ _current_state' = EmptyState
    /\ resumed' = FALSE
    /\ cachedAtStart' = {}
    /\ pending' = {}
    /\ extractLog' = {}
    /\ ocrLog' = {}
    /\ processLog' = {}
    /\ saveLog' = {}
    /\ hitLog' = {}
    /\ image_data' = "None"
    /\ cpPages' = {}
    /\ UNCHANGED <<runs, task_id>>

\* process_pdf's handler of whatever the page loop raises at position at:
\* the error is swallowed and the loop goes on
except_Exception_continue(at) ==
    IF at = "save" THEN "add" ELSE IF at = "checkpoint" THEN "loop" ELSE "failed"

\* process_pdf's handler of whatever the page loop raises at position at:
\* except Exception as e: log it, return None
except_Exception(at) == "failed"

\* call raises inside the try block of process_pdf
Raises(call) ==
    /\ failure' = [call |-> call, page_num |-> page_num]
    /\ pc' = except_Exception(pc)
    /\ ProcessExits

\* cache = cache_manager.get_page_cache(task_id, page_num); if cache: ...
CheckCache ==
    /\ pc = "loop"
    /\ page_num < PageCount
    /\ \E cache \in get_page_cache(page_cache, task_id, page_num) :
         IF cache # None
         THEN /\ processed_text' = CachedPage(cache)[1]
              /\ page_type' = CachedPage(cache)[2]
              /\ hitLog' = hitLog \cup {page_num}
              /\ pc' = "add"
         ELSE /\ pc' = "extract"
              /\ UNCHANGED <<processed_text, page_type, hitLog>>
    /\ UNCHANGED <<libVars, fnVars, ocrVars, faultVars>>
    /\ UNCHANGED <<storeVars, histVars, runs, task_id, start_page, page_num, text,
                   epub, sigint, _cache_manager, _current_state, resumed, cachedAtStart,
                   pending, inflight, extractLog, ocrLog, processLog, saveLog>>

\* pdf_parser.extract_text(page_num): the text layer of the page, the same
\* on every run of the same document
extract_text(pn) == "t1"

\* pdf_parser.has_text_layer(page_num): the document's first page carries a
\* text layer, its other pages are scans
has_text_layer(pn) == pn = 0

\* pdf_parser.extract_image(page_num) returns: the page as JPEG bytes, or no
\* bytes at all when cv2.imencode did not encode (its flag is dropped)
extract_image(pn) == {"jpeg", "empty"}

\* image_data = extract_image(page_num); has_text_layer(page_num): the text
\* layer is read, or the page goes to recognition
Extract ==
    /\ pc = "extract"
    /\ extractLog' = extractLog \cup {page_num}
    /\ image_data' \in extract_image(page_num)
    /\ IF has_text_layer(page_num)
       THEN text' = extract_text(page_num) /\ pc' = "process"
       ELSE text' = text /\ pc' = "ocr"
    /\ UNCHANGED <<libVars, fnVars, ocrVars, failure, cpPages>>
    /\ UNCHANGED <<storeVars, histVars, runs, task_id, start_page, page_num,
                   processed_text, page_type, epub, sigint, _cache_manager, _current_state,
                   resumed, cachedAtStart, pending, inflight, ocrLog, processLog, saveLog, hitLog>>

\* ocr_result = ocr_processor.ocr_page(image_data); text = ocr_result.get('text', '')
\* (_call_llm_ocr cannot open an image without bytes: every attempt raises)
Recognize ==
    /\ pc = "ocr"
    /\ image_data = "jpeg"
    /\ ocrLog' = ocrLog \cup {page_num}
    /\ \E t \in Texts : text' = t
    /\ pc' = "process"
    /\ UNCHANGED <<libVars, fnVars, ocrVars, faultVars>>
    /\ UNCHANGED <<storeVars, histVars, runs, task_id, start_page, page_num,
                   processed_text, page_type, epub, sigint, _cache_manager, _current_state,
                   resumed, cachedAtStart, pending, inflight, extractLog, processLog, saveLog,
                   hitLog>>

\* ocr_page raises after its last attempt: except Exception, return None
RecognizeFails ==
    /\ pc = "ocr"
    /\ Raises("ocr_page")
    /\ UNCHANGED <<libVars, fnVars, ocrVars>>
    /\ UNCHANGED <<storeVars, histVars, inflight>>

\* page.get_pixmap, the reshape of its samples or cv2.imencode raises in
\* extract_image: nothing in extract_image or the loop catches it
ExtractFails ==
    /\ pc = "extract"
    /\ Raises("extract_image")
    /\ UNCHANGED <<libVars, fnVars, ocrVars>>
    /\ UNCHANGED <<storeVars, histVars, inflight>>

\* process_page(image, text): a pure function of the page image and the
\* text; the document's first page is a table of contents. Bytes that
\* cv2.imdecode rejects give the placeholder page, of type "blank"
process_page(image, pn, t) ==
    IF image = "empty"
    THEN <<"<div class='page'><p>...</p></div>", "blank">>
    ELSE <<IF t = "t1" THEN "h1" ELSE "h2", IF pn = 0 THEN "toc" ELSE "base">>

\* processed_text, page_type = process_page(image_for_processing, text)
ProcessPage ==
    /\ pc = "process"
    /\ processLog' = processLog \cup {page_num}
    /\ processed_text' = process_page(image_data, page_num, text)[1]
    /\ page_type' = process_page(image_data, page_num, text)[2]
    /\ pc' = "save"
    /\ UNCHANGED <<libVars, fnVars, ocrVars, faultVars>>
    /\ UNCHANGED <<storeVars, histVars, runs, task_id, start_page, page_num, text,
                   epub, sigint, _cache_manager, _current_state,
                   resumed, cachedAtStart, pending, inflight, extractLog, ocrLog, saveLog, hitLog>>

\* cache_manager.save_page_cache(task_id, page_num, text, processed_text, page_type)
SavePage ==
    /\ pc = "save"
    /\ saveLog' = saveLog \cup {page_num}
    /\ page_cache' = save_page_cache(page_cache, task_id, page_num, text,
                                     processed_text, page_type)
    /\ pc' = "add"
    /\ UNCHANGED <<libVars, fnVars, ocrVars, faultVars>>
    /\ UNCHANGED <<clock, tasks, checkpoints, seq_cp, histVars, runs, task_id,
                   start_page, page_num, text, processed_text, page_type, epub, sigint,
                   _cache_manager, _current_state,
                   resumed, cachedAtStart, pending, inflight, extractLog, ocrLog, processLog,
                   hitLog>>

\* save_page_cache raises (sqlite3.Error at execute or commit): no row is
\* written
SavePageFails ==
    /\ pc = "save"
    /\ Raises("save_page_cache")
    /\ UNCHANGED <<libVars, fnVars, ocrVars>>
    /\ UNCHANGED <<storeVars, histVars, inflight>>

\* epub_builder.add_page(processed_text, page_type)
AddPage ==
    /\ pc = "add"
    /\ epub' = Append(epub, [page_num |-> page_num, processed_text |-> processed_text,
                             page_type |-> page_type])
    /\ pc' = "checkpoint"
    /\ UNCHANGED <<libVars, fnVars, ocrVars, faultVars>>
    /\ UNCHANGED <<storeVars, histVars, runs, task_id, start_page, page_num, text,
                   processed_text, page_type, sigint, _cache_manager, _current_state,
                   runLogVars>>

\* cache_manager.save_checkpoint(task_id, page_num), then the next index.
\* (text, processed_text and page_type are dead here: each is assigned
\* before its next use.)
Checkpoint ==
    /\ pc = "checkpoint"
    /\ seq_cp' = seq_cp + 1
    /\ \E now \in Now :
         /\ clock' = now
         /\ checkpoints' \in save_checkpoint(checkpoints, seq_cp + 1, now, task_id,
                                             page_num, "None")
    /\ cpPages' = cpPages \cup {page_num}
    /\ page_num' = page_num + 1
    /\ text' = ""
    /\ processed_text' = ""
    /\ page_type' = ""
    /\ image_data' = "None"
    /\ pc' = "loop"
    /\ UNCHANGED <<libVars, fnVars, ocrVars, failure>>
    /\ UNCHANGED <<tasks, page_cache, histVars, runs, task_id, start_page,
                   epub, sigint, _cache_manager, _current_state, runLogVars>>

\* save_checkpoint raises: at the INSERT or its commit, and no row is
\* written, or in _cleanup_old_checkpoints, after the row was committed
CheckpointFails ==
    /\ pc = "checkpoint"
    /\ \/ UNCHANGED <<clock, checkpoints, seq_cp>>
       \/ /\ seq_cp' = seq_cp + 1
          /\ \E now \in Now :
               /\ clock' = now
               /\ checkpoints' = checkpoints \cup
                    {[id |-> seq_cp + 1, task_id |-> task_id, current_page |-> page_num,
                      state |-> json_dumps_state("None"), created_at |-> now]}
    /\ Raises("save_checkpoint")
    /\ UNCHANGED <<libVars, fnVars, ocrVars>>
    /\ UNCHANGED <<tasks, page_cache, histVars, inflight>>

\* range(start_page, page_count) is exhausted: epub_builder.build()
Build ==
    /\ pc = "loop"
    /\ page_num >= PageCount
    /\ pc' = "done"
    /\ UNCHANGED <<libVars, fnVars, ocrVars, faultVars>>
    /\ UNCHANGED <<storeVars, histVars, runs, task_id, start_page, page_num, text,
                   processed_text, page_type, epub, sigint, _cache_manager, _current_state,
                   runLogVars>>

\* ------------------------------------------------ utils/signal_handler.py
\* setup_signal_handlers(cache_manager): signal.signal(SIGINT, handle_interrupt)
SetupSignalHandlers ==
    /\ pc = "loop"
    /\ page_num = start_page
    /\ sigint = "default"
    /\ sigint' = "handle_interrupt"
    /\ \E cm \in {"None", "cache_manager"} : _cache_manager' = cm
    /\ UNCHANGED <<libVars, fnVars, ocrVars, faultVars>>
    /\ UNCHANGED <<storeVars, histVars, pc, runs, task_id, start_page, page_num,
                   text, processed_text, page_type, epub, _current_state, runLogVars>>

\* update_state(task_id, page_num), called for the page the loop is at
UpdateState ==
    /\ pc = "loop"
    /\ page_num < PageCount
    /\ _current_state' = [task_id |-> {task_id}, page_num |-> {page_num}]
    /\ _current_state' # _current_state
    /\ UNCHANGED <<libVars, fnVars, ocrVars, faultVars>>
    /\ UNCHANGED <<storeVars, histVars, pc, runs, task_id, start_page, page_num,
                   text, processed_text, page_type, epub, sigint, _cache_manager,
                   runLogVars>>

\* the page in flight that has no PageRecord yet
InFlight == IF pc \in {"extract", "ocr", "process", "save"} THEN {page_num} ELSE {}

\* SIGINT with Python's default handler: KeyboardInterrupt leaves process_pdf
\* (except Exception does not catch it) and main() returns 130
KeyboardInterrupt ==
    /\ pc \in Running
    /\ sigint = "default"
    /\ pc' = "interrupted"
    /\ inflight' = InFlight
    /\ ProcessExits
    /\ UNCHANGED <<libVars, fnVars, ocrVars, failure>>
    /\ UNCHANGED <<storeVars, histVars>>

\* handle_interrupt: the checkpoint is saved, or save_checkpoint raises and the
\* state goes to a local file; then sys.exit(130)
handle_interrupt ==
    /\ pc \in Running
    /\ sigint = "handle_interrupt"
    /\ pc' = "interrupted"
    /\ inflight' = InFlight
    /\ IF /\ _cache_manager # "None"
          /\ _current_state.task_id # {}
          /\ _current_state.page_num # {}
       THEN \/ /\ seq_cp' = seq_cp + 1
               /\ \E tid \in _current_state.task_id,
                     current_page \in _current_state.page_num, now \in Now :
                    /\ clock' = now
                    /\ checkpoints' \in save_checkpoint(checkpoints, seq_cp + 1, now, tid,
                                                        current_page, "_current_state")
            \/ UNCHANGED <<clock, checkpoints, seq_cp>>
       ELSE UNCHANGED <<clock, checkpoints, seq_cp>>
    /\ ProcessExits
    /\ UNCHANGED <<libVars, fnVars, ocrVars, failure>>
    /\ UNCHANGED <<tasks, page_cache, histVars>>

\* main.py as it is: it imports setup_signal_handlers and update_state and
\* calls neither, so SIGINT keeps Python's default handler
Next ==
    \/ StartRun
    \/ CheckCache
    \/ Extract
    \/ ExtractFails
    \/ Recognize
    \/ RecognizeFails
    \/ ProcessPage
    \/ SavePage
    \/ SavePageFails
    \/ AddPage
    \/ Checkpoint
    \/ CheckpointFails
    \/ Build
    \/ KeyboardInterrupt

Spec == Init /\ [][Next]_vars

\* process_pdf run by a caller that installs the interrupt handler of
\* utils/signal_handler.py and reports each page to update_state
HandlerNext ==
    \/ StartRun
    \/ CheckCache
    \/ Extract
    \/ ExtractFails
    \/ Recognize
    \/ RecognizeFails
    \/ ProcessPage
    \/ SavePage
    \/ SavePageFails
    \/ AddPage
    \/ Checkpoint
    \/ CheckpointFails
    \/ Build
    \/ KeyboardInterrupt
    \/ SetupSignalHandlers
    \/ UpdateState
    \/ handle_interrupt

HandlerSpec == Init /\ [][HandlerNext]_vars

\* ------------------------------------------- the store's own specifications
TaskNext == CreateTask
TaskSpec == Init /\ [][TaskNext]_vars

PageNext == SavePageCache
PageSpec == Init /\ [][PageNext]_vars

CheckpointNext == SaveCheckpoint
CheckpointSpec == Init /\ [][CheckpointNext]_vars

\* ---------------------------------------------------- get_task_progress
\* the databases get_task_progress is called on: tasks of the ids TaskIdInputs
\* with any stored metadata, page_cache rows of any of their pages
TaskTables ==
    {{[id |-> t, file_path |-> <<"a", t[2]>>, metadata |-> f[t], created_at |-> t[1]] :
         t \in {u \in TaskIdInputs : f[u] # None}} :
       f \in [TaskIdInputs -> {None} \cup {json_dumps_metadata(md) : md \in Metadatas}]}

PageTables ==
    SUBSET {PageRow(t, pn, "t1", "h1", "base") : t \in TaskIdInputs, pn \in PageInputs}

ProgressInit ==
    /\ clock = 0
    /\ tasks \in TaskTables
    /\ page_cache \in PageTables
    /\ checkpoints = {}
    /\ seq_cp = 0
    /\ ProcInit
    /\ FnInit
    /\ OcrFnInit
    /\ LibInit

GetTaskProgress ==
    \E tid \in TaskIdInputs :
        /\ progressCall' = [task_id |-> tid,
                        result |-> get_task_progress(tasks, page_cache, tid)]
        /\ UNCHANGED <<storeVars, histVars, procVars, runLogVars, clearCall, page,
                       classified, ocrVars, faultVars, libVars>>

ProgressNext == GetTaskProgress
ProgressSpec == ProgressInit /\ [][ProgressNext]_vars

\* ----------------------------------------------------- clear_task_cache
\* checkpoint tables of the tasks TaskIdInputs: ids 1 .. 2 * max_checkpoints,
\* dealt to the tasks in turn, so that no task holds more than max_checkpoints
CheckpointTables ==
    SUBSET {[id |-> i, task_id |-> IF i % 2 = 1 THEN <<0, "x.pdf">> ELSE <<1, "x.pdf">>,
             current_page |-> i % 2, state |-> "{}", created_at |-> 0] :
               i \in 1 .. (2 * max_checkpoints)}

ClearInit ==
    /\ clock = 0
    /\ tasks \in TaskTables
    /\ page_cache \in PageTables
    /\ checkpoints \in CheckpointTables
    /\ seq_cp = 2 * max_checkpoints
    /\ ProcInit
    /\ FnInit
    /\ OcrFnInit
    /\ LibInit

ClearTaskCache ==
    \E tid \in TaskIdInputs :
        /\ clearCall.n < MaxClears
        /\ LET res == clear_task_cache(page_cache, checkpoints, tid)
           IN  /\ page_cache' = res.page_cache
               /\ checkpoints' = res.checkpoints
               /\ clearCall' = [n |-> clearCall.n + 1, task_id |-> tid,
                                deleted |-> Cardinality(page_cache \ res.page_cache)
                                          + Cardinality(checkpoints \ res.checkpoints)]
        /\ UNCHANGED <<clock, tasks, seq_cp, histVars, procVars, runLogVars,
                       progressCall, page, classified, ocrVars, faultVars,
                       libVars>>

ClearNext == ClearTaskCache
ClearSpec == ClearInit /\ [][ClearNext]_vars

\* -------------------------------------- core/page_processors, process_page
\* confidences are counted in thirtieths: 1.0 is 30, 0.1 is 3
One == 30
Min(a, b) == IF a < b THEN a ELSE b
Max(a, b) == IF a > b THEN a ELSE b

\* a page by the features the detectors read.
\*   image: None, or the share of non-white pixels (<= 0.3, <= 0.5, more)
\*   grid: HoughLinesP finds >= 3 horizontal and >= 2 vertical lines
\*   text: None, "" or a text, of which
\*   chars = len(text.strip()), lines = len(text.strip().split('\n')),
\*   keyword: a contents keyword occurs, dotted: lines ending in dots and a
\*   page number, chapters: chapter pattern hits, markers: footnote marker
\*   hits, notes: lines that start with a marker, pipes: more than 5 '|',
\*   rule: '---' and '|' occur, alike: the lines hold alike numbers (>= 2) of '|'
NoText(txt) ==
    [text |-> txt, chars |-> 0, lines |-> 1, keyword |-> FALSE, dotted |-> 0,
     chapters |-> 0, markers |-> 0, notes |-> 0, pipes |-> FALSE, rule |-> FALSE,
     alike |-> FALSE]

TextFeatures ==
    {NoText("None"), NoText("")} \cup
    {[text |-> "text", chars |-> ch, lines |-> n, keyword |-> kw, dotted |-> d,
      chapters |-> c, markers |-> m, notes |-> f, pipes |-> pp, rule |-> ru,
      alike |-> al] :
        ch \in {40, 80, 150, 250, 400}, n \in {1, 3, 6}, kw \in BOOLEAN,
        d \in {0, 1, 6}, c \in {0, 12}, m \in {0, 2, 7}, f \in {0, 6},
        pp \in BOOLEAN, ru \in BOOLEAN, al \in BOOLEAN}

ImageFeatures ==
    {[image |-> "None", grid |-> FALSE]} \cup
    {[image |-> im, grid |-> g] : im \in {"blank", "half", "full"}, g \in BOOLEAN}

\* fault for C14: the sum is returned without max(0.0, min(confidence, 1.0))
CoverProcessor_detect_raw(image, txt) ==
    LET t == txt.text = "text"
    IN  (IF image.image \in {"half", "full"} THEN 9 ELSE 0)
        + (IF image.image = "full" THEN 3 ELSE 0)
        + (IF t /\ txt.chars < 100 THEN 6 ELSE 0)
        + (IF t /\ txt.chars < 50 THEN 3 ELSE 0)
        + (IF t /\ txt.chars > 200 THEN -6 ELSE 0)
        + (IF t /\ txt.chars > 300 THEN -6 ELSE 0)
        + (IF t /\ txt.lines > 5 THEN -3 ELSE 0)
        + (IF t /\ 2 <= txt.lines /\ txt.lines <= 5 THEN 3 ELSE 0)

\* CoverProcessor.detect
CoverProcessor_detect(image, txt) ==
    LET c1 == IF image.image \in {"half", "full"} THEN 9 ELSE 0
        c2 == IF image.image = "full" THEN 3 ELSE 0
        t == txt.text = "text"
        c3 == IF t /\ txt.chars < 100 THEN 6 ELSE 0
        c4 == IF t /\ txt.chars < 50 THEN 3 ELSE 0
        c5 == IF t /\ txt.chars > 200 THEN -6 ELSE 0
        c6 == IF t /\ txt.chars > 300 THEN -6 ELSE 0
        c7 == IF t /\ txt.lines > 5 THEN -3 ELSE 0
        c8 == IF t /\ 2 <= txt.lines /\ txt.lines <= 5 THEN 3 ELSE 0
        confidence == c1 + c2 + c3 + c4 + c5 + c6 + c7 + c8
    IN  Max(0, Min(confidence, One))

\* TOCProcessor.detect
TOCProcessor_detect(image, txt) ==
    IF txt.text # "text" THEN 0
    ELSE LET c1 == IF txt.keyword THEN 12 ELSE 0
             c2 == IF txt.dotted > 0
                   THEN Min(12, (Min(txt.dotted, txt.lines) * 24) \div txt.lines) ELSE 0
             c3 == IF txt.chapters > 0
                   THEN Min(6, (txt.chapters * 12) \div txt.lines) ELSE 0
         IN  Min(c1 + c2 + c3, One)

\* FootnoteProcessor.detect
FootnoteProcessor_detect(image, txt) ==
    IF txt.text # "text" THEN 0
    ELSE LET c1 == IF txt.markers > 0 THEN Min(15, txt.markers * 3) ELSE 0
             c2 == IF txt.notes > 0 THEN Min(15, Min(txt.notes, txt.lines) * 3) ELSE 0
         IN  Min(c1 + c2, One)

\* TableProcessor.detect
TableProcessor_detect(image, txt) ==
    LET t == txt.text = "text"
        c1 == IF t /\ txt.pipes THEN 9 ELSE 0
        c2 == IF t /\ txt.rule THEN 9 ELSE 0
        c3 == IF t /\ txt.lines >= 3 /\ txt.alike THEN 9 ELSE 0
        c4 == IF image.image # "None" /\ image.grid THEN 9 ELSE 0
    IN  Min(c1 + c2 + c3 + c4, One)

\* BaseProcessor.detect
BaseProcessor_detect(image, txt) == 0

PROCESSOR_REGISTRY ==
    <<"CoverProcessor", "TOCProcessor", "FootnoteProcessor", "TableProcessor",
      "BaseProcessor">>

detect(processor_class, image, txt) ==
    CASE processor_class = "CoverProcessor" -> CoverProcessor_detect(image, txt)
      [] processor_class = "TOCProcessor" -> TOCProcessor_detect(image, txt)
      [] processor_class = "FootnoteProcessor" -> FootnoteProcessor_detect(image, txt)
      [] processor_class = "TableProcessor" -> TableProcessor_detect(image, txt)
      [] OTHER -> BaseProcessor_detect(image, txt)

\* best_processor.__name__.replace('Processor', '').lower()
PageTypeOf(processor_class) ==
    CASE processor_class = "CoverProcessor" -> "cover"
      [] processor_class = "TOCProcessor" -> "toc"
      [] processor_class = "FootnoteProcessor" -> "footnote"
      [] processor_class = "TableProcessor" -> "table"
      [] OTHER -> "base"

\* fault for C13: the loop compares with >=, the last of equal detectors wins
RECURSIVE BestProcessorLast(_, _, _, _)
BestProcessorLast(i, best, image, txt) ==
    IF i > Len(PROCESSOR_REGISTRY) THEN best
    ELSE LET confidence == detect(PROCESSOR_REGISTRY[i], image, txt)
         IN  IF confidence >= best.confidence /\ confidence > 0
             THEN BestProcessorLast(i + 1, [processor |-> PROCESSOR_REGISTRY[i],
                                            confidence |-> confidence], image, txt)
             ELSE BestProcessorLast(i + 1, best, image, txt)

\* for processor_class in PROCESSOR_REGISTRY[i:]: if confidence > best_confidence
RECURSIVE BestProcessor(_, _, _, _)
BestProcessor(i, best, image, txt) ==
    IF i > Len(PROCESSOR_REGISTRY) THEN best
    ELSE LET confidence == detect(PROCESSOR_REGISTRY[i], image, txt)
         IN  IF confidence > best.confidence
             THEN BestProcessor(i + 1, [processor |-> PROCESSOR_REGISTRY[i],
                                        confidence |-> confidence], image, txt)
             ELSE BestProcessor(i + 1, best, image, txt)

\* process_page from "best_processor = None" to the choice of page_type
classify(image, txt) ==
    LET best == BestProcessor(1, [processor |-> "None", confidence |-> 0], image, txt)
    IN  IF best.processor # "None" /\ 2 * best.confidence > One
        THEN [processor |-> best.processor, page_type |-> PageTypeOf(best.processor)]
        ELSE [processor |-> PROCESSOR_REGISTRY[Len(PROCESSOR_REGISTRY)],
              page_type |-> "base"]

ClassifyInit ==
    /\ StoreInit
    /\ ProcInit
    /\ OcrFnInit
    /\ LibInit
    /\ progressCall = None
    /\ clearCall = [n |-> 0, task_id |-> NoTask, deleted |-> 0]
    /\ \E image \in ImageFeatures, txt \in TextFeatures :
         page = [image |-> image, text |-> txt]
    /\ classified = None

Classify ==
    /\ classified = None
    /\ page # None
    /\ classified' =
         [confidences |-> [i \in 1 .. Len(PROCESSOR_REGISTRY) |->
                              detect(PROCESSOR_REGISTRY[i], page.image, page.text)],
          processor |-> classify(page.image, page.text).processor,
          page_type |-> classify(page.image, page.text).page_type]
    /\ UNCHANGED <<storeVars, histVars, procVars, runLogVars, progressCall, clearCall,
                   page, ocrVars, faultVars, libVars>>

ClassifyNext == Classify
ClassifySpec == ClassifyInit /\ [][ClassifyNext]_vars

\* ------------------------------------------- core/ocr_processor.py, ocr_page
\* what _call_llm_ocr can return: a text, with or without a token_usage field
OcrResults ==
    {[text |-> t] : t \in Texts}
      \cup {[text |-> t, token_usage |-> u] : t \in Texts, u \in {0, 7}}

\* what _call_llm_ocr can raise. Whatever went wrong inside it (a timeout, a
\* rejected api key, an image that cannot be parsed) leaves it as a plain
\* Exception("调用OCR API失败: ...")
OcrErrors == {"timeout", "invalid_api_key"}

\* wait_time = 2 * attempt: a linear backoff
wait_time_linear(attempt) == 2 * attempt

\* wait_time = 2 ** attempt
wait_time(attempt) == 2 ^ attempt

\* self.total_tokens = token_usage: the count replaced, not added to
set_token_usage(total, result) ==
    IF "token_usage" \in DOMAIN result THEN result.token_usage ELSE total

\* if 'token_usage' in result: self.total_tokens += token_usage
add_token_usage(total, result) ==
    IF "token_usage" \in DOMAIN result THEN total + result.token_usage ELSE total

\* OCRProcessor(config): retry_count = config.getint('ocr', 'retry_count', fallback=3)
OcrInit ==
    /\ StoreInit
    /\ ProcInit
    /\ FnInit
    /\ LibInit
    /\ retry_count \in 0 .. MaxRetryCount
    /\ total_tokens = 0
    /\ ocr_call = NoOcrCall
    /\ resultLog = <<>>

\* ocr_page(image) is called: for attempt in range(self.retry_count)
OcrPage ==
    /\ ocr_call.status # "running"
    /\ ocr_call.n < MaxOcrCalls
    /\ ocr_call' = [NoOcrCall EXCEPT !.status = "running", !.n = ocr_call.n + 1]
    /\ UNCHANGED <<storeVars, histVars, procVars, runLogVars, fnVars, faultVars, libVars,
                   retry_count, total_tokens, resultLog>>

\* an attempt whose _call_llm_ocr returns: total_tokens += token_usage if
\* the result has one; return result
AttemptSucceeds ==
    /\ ocr_call.status = "running"
    /\ ocr_call.attempt < retry_count
    /\ \E result \in OcrResults :
         /\ total_tokens' = add_token_usage(total_tokens, result)
         /\ resultLog' = Append(resultLog, result)
         /\ ocr_call' = [ocr_call EXCEPT !.calls = @ + 1, !.result = result,
                                         !.status = "returned"]
    /\ UNCHANGED <<storeVars, histVars, procVars, runLogVars, fnVars, faultVars, libVars,
                   retry_count>>

\* an attempt whose _call_llm_ocr raises: except Exception, sleep
\* 2 ** attempt and go round again if attempt < retry_count - 1, else raise
AttemptFails ==
    /\ ocr_call.status = "running"
    /\ ocr_call.attempt < retry_count
    /\ \E e \in OcrErrors :
         IF ocr_call.attempt < retry_count - 1
         THEN ocr_call' = [ocr_call EXCEPT !.calls = @ + 1,
                                          !.errors = Append(@, e),
                                          !.sleeps = Append(@, wait_time(ocr_call.attempt)),
                                          !.attempt = @ + 1]
         ELSE ocr_call' = [ocr_call EXCEPT !.calls = @ + 1,
                                          !.errors = Append(@, e),
                                          !.status = "raised"]
    /\ UNCHANGED <<storeVars, histVars, procVars, runLogVars, fnVars, faultVars, libVars,
                   retry_count, total_tokens, resultLog>>

\* range(self.retry_count) is exhausted without return or raise: the
\* function body ends, ocr_page returns None
OcrFallsThrough ==
    /\ ocr_call.status = "running"
    /\ ocr_call.attempt >= retry_count
    /\ ocr_call' = [ocr_call EXCEPT !.status = "fell_through"]
    /\ UNCHANGED <<storeVars, histVars, procVars, runLogVars, fnVars, faultVars, libVars,
                   retry_count, total_tokens, resultLog>>

OcrNext ==
    \/ OcrPage
    \/ AttemptSucceeds
    \/ AttemptFails
    \/ OcrFallsThrough

OcrSpec == OcrInit /\ [][OcrNext]_vars

\* ----------------------------------------------------- core/epub_builder.py
\* toc entry dicts, as enhanced_text_processor builds them
TocEntryDicts ==
    {[title |-> "one", level |-> 1, page |-> 1],
     [title |-> "two", level |-> 2, page |-> 5],
     [title |-> "three", level |-> 1, page |-> 9]}

\* metadata dicts a caller passes: a dict is a record of the keys it holds,
\* None is no dict
MetadataDicts ==
    {None,
     [language |-> "en"],
     [title |-> "T1"], [title |-> ""], [title |-> "T2", author |-> "A1"],
     [author |-> "", publisher |-> "P1", isbn |-> "I1"],
     [publisher |-> "", isbn |-> ""],
     [chapter |-> "c1"], [section |-> "s1"], [chapter |-> "", section |-> ""],
     [level |-> 4]}
    \cup {[toc_entries |-> es] :
            es \in {<<>>} \cup {<<e>> : e \in TocEntryDicts}
                   \cup {<<e, e>> : e \in TocEntryDicts}
                   \cup {<<e, f>> \in TocEntryDicts \X TocEntryDicts : e.page < f.page}}

\* metadata an add_page caller passes along with a page
PageMetadataDicts ==
    {None, [title |-> "T1"], [chapter |-> "c1"], [section |-> "s1", level |-> 4]}
    \cup {[toc_entries |-> <<e>>] : e \in {f \in TocEntryDicts : f.page = 1}}

BuilderPageTypes == {"cover", "toc", "chapter", "base"}

\* Python: key in metadata and metadata[key]
Truthy(metadata, key) ==
    /\ key \in DOMAIN metadata
    /\ IF key = "toc_entries" THEN metadata[key] # <<>> ELSE metadata[key] # ""

\* self.<key> = metadata[key], whatever the value
UpdatedAlways(old, metadata, key) ==
    IF key \in DOMAIN metadata THEN metadata[key] ELSE old

\* if key in metadata and metadata[key]: self.<key> = metadata[key]
Updated(old, metadata, key) ==
    IF Truthy(metadata, key) THEN metadata[key] ELSE old

Range(seq) == {seq[i] : i \in 1 .. Len(seq)}

\* for entry in entries: if entry not in self.toc_entries: append
RECURSIVE AppendNew(_, _)
AppendNew(toc, entries) ==
    IF entries = <<>> THEN toc
    ELSE AppendNew(IF Head(entries) \in Range(toc) THEN toc
                   ELSE Append(toc, Head(entries)),
                   Tail(entries))

\* EPUBBuilder.add_metadata(metadata)
add_metadata(b, metadata) ==
    IF metadata = None THEN b
    ELSE [b EXCEPT
            !.title = Updated(@, metadata, "title"),
            !.author = Updated(@, metadata, "author"),
            !.publisher = Updated(@, metadata, "publisher"),
            !.isbn = Updated(@, metadata, "isbn"),
            !.toc_entries = IF Truthy(metadata, "toc_entries")
                            THEN AppendNew(@, metadata.toc_entries) ELSE @,
            !.current_chapter = Updated(@, metadata, "chapter"),
            !.current_section = Updated(@, metadata, "section")]

\* EPUBBuilder._generate_title; <<type, n>> stands for the default title of
\* a page type, numbered where the source numbers it
_generate_title(b, ptype, metadata) ==
    IF metadata # None /\ ptype = "cover" /\ "title" \in DOMAIN metadata
    THEN metadata.title
    ELSE IF metadata # None /\ Truthy(metadata, "chapter") THEN metadata.chapter
    ELSE IF metadata # None /\ Truthy(metadata, "section") THEN metadata.section
    ELSE IF ptype \in {"cover", "publication_info", "toc", "preface", "afterword"}
    THEN <<ptype, 0>>
    ELSE IF ptype \in {"chapter", "section"}
    THEN <<ptype, Len(b.chapters) + 1>>
    ELSE <<"page", Len(b.chapters) + 1>>

\* EPUBBuilder._determine_level
_determine_level(b, ptype, metadata) ==
    IF ptype \in {"cover", "publication_info", "toc", "preface", "afterword"} THEN 1
    ELSE IF metadata # None /\ "level" \in DOMAIN metadata THEN metadata.level
    ELSE IF ptype = "chapter" THEN 1
    ELSE IF ptype = "section" THEN 2
    ELSE IF b.current_chapter # "" /\ b.current_section = "" THEN 2
    ELSE IF b.current_section # "" THEN 3
    ELSE 1

\* EPUBBuilder.add_page(content, page_type, metadata), add_chapter included
add_page(b, ptype, metadata) ==
    LET m == add_metadata(b, metadata)
        chapter == [title |-> _generate_title(m, ptype, metadata),
                    level |-> _determine_level(m, ptype, metadata)]
    IN  [m EXCEPT
           !.chapters = Append(@, chapter),
           !.processed_page_types =
               IF ptype \in DOMAIN @ THEN [@ EXCEPT ![ptype] = TRUE] ELSE @]

BuilderCalls == Len(builder.chapters) + Len(mergeLog)

\* builder.add_metadata(metadata), called by itself
AddMetadata ==
    \E metadata \in MetadataDicts :
        /\ BuilderCalls < MaxBuilderCalls
        /\ builder' = add_metadata(builder, metadata)
        /\ mergeLog' = Append(mergeLog, metadata)
        /\ UNCHANGED <<storeVars, histVars, procVars, runLogVars, fnVars, ocrVars,
                       faultVars, textCall>>

\* builder.add_page(content, page_type, metadata): the metadata is merged
\* if there is any
BuilderAddPage ==
    \E ptype \in BuilderPageTypes, metadata \in PageMetadataDicts :
        /\ BuilderCalls < MaxBuilderCalls
        /\ builder' = add_page(builder, ptype, metadata)
        /\ mergeLog' = IF metadata # None THEN Append(mergeLog, metadata) ELSE mergeLog
        /\ UNCHANGED <<storeVars, histVars, procVars, runLogVars, fnVars, ocrVars,
                       faultVars, textCall>>

BuilderNext ==
    \/ AddMetadata
    \/ BuilderAddPage

BuilderSpec == Init /\ [][BuilderNext]_vars

\* ----------------------------------------------------- core/text_cleaner.py
\* A text is a sequence of characters.  A run of letters that no rule takes
\* apart is one element (a word), and a character outside ASCII is named by
\* its code point.

LF == "\n"
Words == {"ab", "no", "One", "Two", "TOC_ENTRY"}
Digits == {"1", "5"}
FullStop == "U+3002"
Ellipsis == "U+2026U+2026"

\* \s, \d, \w of the regular expressions
IsSpace(c) == c \in {" ", LF}
IsDigit(c) == c \in Digits
IsWord(c) == c \in Words \cup Digits

First(S) == CHOOSE x \in S : \A y \in S : x <= y
Last(S) == CHOOSE x \in S : \A y \in S : y <= x

\* the first index from i on that holds no white space, Len(t) + 1 if none
SkipSpace(t, i) == First({j \in i .. Len(t) + 1 : j = Len(t) + 1 \/ ~IsSpace(t[j])})

\* str.lstrip, str.rstrip, str.strip
LStrip(t) == SubSeq(t, SkipSpace(t, 1), Len(t))
RStrip(t) == SubSeq(t, 1, Last({j \in 0 .. Len(t) : j = 0 \/ ~IsSpace(t[j])}))
Strip(t) == RStrip(LStrip(t))

\* str.split(sep), str.join
RECURSIVE Split(_, _)
Split(t, sep) ==
    LET n == Len(sep)
        At == {i \in 1 .. Len(t) - n + 1 : SubSeq(t, i, i + n - 1) = sep}
    IN  IF At = {} THEN <<t>>
        ELSE <<SubSeq(t, 1, First(At) - 1)>>
                 \o Split(SubSeq(t, First(At) + n, Len(t)), sep)

RECURSIVE Join(_, _)
Join(parts, sep) ==
    IF parts = <<>> THEN <<>>
    ELSE IF Len(parts) = 1 THEN parts[1]
    ELSE parts[1] \o sep \o Join(Tail(parts), sep)

\* re.split(r'\n\s*\n', t): a separator runs from a line feed to the last
\* line feed of the white space that follows it
RECURSIVE SplitBlank(_)
SplitBlank(t) ==
    LET Ends(i) == {j \in i + 1 .. Len(t) :
                        t[j] = LF /\ \A k \in i .. j : IsSpace(t[k])}
        Starts == {i \in 1 .. Len(t) : t[i] = LF /\ Ends(i) # {}}
    IN  IF Starts = {} THEN <<t>>
        ELSE <<SubSeq(t, 1, First(Starts) - 1)>>
                 \o SplitBlank(SubSeq(t, Last(Ends(First(Starts))) + 1, Len(t)))

\* t without the elements at the indices in D
DeleteAt(t, D) ==
    LET F[i \in 0 .. Len(t)] ==
            IF i = 0 THEN <<>>
            ELSE IF i \in D THEN F[i - 1] ELSE Append(F[i - 1], t[i])
    IN  F[Len(t)]

\* re.sub(r'([^\n。！？"」』])\n(?=[^"「『])', r'\1', para)
RemoveSoftBreaks(para) ==
    DeleteAt(para,
             {i \in 2 .. Len(para) - 1 :
                  /\ para[i] = LF
                  /\ para[i - 1] \notin {LF, FullStop, "U+FF01", "U+FF1F", "\"",
                                         "U+300D", "U+300F"}
                  /\ para[i + 1] \notin {"\"", "U+300C", "U+300E"}})

\* TextCleaner.fix_linebreaks
fix_linebreaks(t) ==
    IF t = <<>> THEN <<>>
    ELSE LET paragraphs == SplitBlank(t)
             Fix(para) ==
                 IF "\"" \in Range(para) THEN RemoveSoftBreaks(para)
                 ELSE [i \in DOMAIN RemoveSoftBreaks(para) |->
                           IF RemoveSoftBreaks(para)[i] = LF THEN " "
                           ELSE RemoveSoftBreaks(para)[i]]
         IN  Join([i \in DOMAIN paragraphs |-> Fix(paragraphs[i])], <<LF, LF>>)

\* punctuation_map of normalize_punctuation
punctuation_map(c) ==
    CASE c = "," -> "U+FF0C"
      [] c = "." -> FullStop
      [] c = ":" -> "U+FF1A"
      [] c = ";" -> "U+FF1B"
      [] c = "?" -> "U+FF1F"
      [] c = "!" -> "U+FF01"
      [] c = "(" -> "U+FF08"
      [] c = ")" -> "U+FF09"
      [] c = "[" -> "U+3010"
      [] c = "]" -> "U+3011"
      [] OTHER -> c

\* re.sub(r'。{3,}', '……', t)
RECURSIVE CollapseStops(_)
CollapseStops(t) ==
    IF t = <<>> THEN <<>>
    ELSE IF Head(t) # FullStop THEN <<Head(t)>> \o CollapseStops(Tail(t))
    ELSE LET k == First({j \in 2 .. Len(t) + 1 : j = Len(t) + 1 \/ t[j] # FullStop})
         IN  (IF k - 1 >= 3 THEN <<Ellipsis>> ELSE SubSeq(t, 1, k - 1))
                 \o CollapseStops(SubSeq(t, k, Len(t)))

\* TextCleaner.normalize_punctuation
normalize_punctuation(t) ==
    IF t = <<>> THEN <<>>
    ELSE CollapseStops([i \in DOMAIN t |-> punctuation_map(t[i])])

\* TextCleaner.merge_hyphenated_words: re.sub(r'(\w+)-\n(\w+)', r'\1\2', t)
RECURSIVE merge_hyphenated_words(_)
merge_hyphenated_words(t) ==
    LET At == {k \in 2 .. Len(t) - 2 :
                   /\ t[k] = "-" /\ t[k + 1] = LF
                   /\ IsWord(t[k - 1]) /\ IsWord(t[k + 2])}
    IN  IF At = {} THEN t
        ELSE LET k == First(At)
                 e == First({j \in k + 3 .. Len(t) + 1 : j = Len(t) + 1 \/ ~IsWord(t[j])})
             IN  SubSeq(t, 1, k - 1) \o SubSeq(t, k + 2, e - 1)
                     \o merge_hyphenated_words(SubSeq(t, e, Len(t)))

\* TextCleaner.normalize_special_characters: it returns the text as it is
normalize_special_characters(t) == t

\* where a match of r'\n\s*[-\[]?\s*[0-9]+\s*[-\]]?\s*\n' that starts at the
\* line feed t[i] ends, 0 if there is none
PageNumberEnd(t, i) ==
    LET a0 == SkipSpace(t, i + 1)
        a1 == IF a0 <= Len(t) /\ t[a0] \in {"-", "["} THEN a0 + 1 ELSE a0
        a2 == SkipSpace(t, a1)
        a3 == First({j \in a2 .. Len(t) + 1 : j = Len(t) + 1 \/ ~IsDigit(t[j])})
        \* \s*\n from index frm on: the last line feed of the white space
        Closing(frm) ==
            LET lfs == {j \in frm .. SkipSpace(t, frm) - 1 : t[j] = LF}
            IN  IF lfs = {} THEN 0 ELSE Last(lfs)
        b == SkipSpace(t, a3)
    IN  IF a3 = a2 THEN 0
        ELSE IF b <= Len(t) /\ t[b] \in {"-", "]"} /\ Closing(b + 1) # 0
             THEN Closing(b + 1)
        ELSE Closing(a3)

\* TextCleaner.remove_page_numbers
RECURSIVE remove_page_numbers(_)
remove_page_numbers(t) ==
    LET At == {i \in 1 .. Len(t) : t[i] = LF /\ PageNumberEnd(t, i) # 0}
    IN  IF At = {} THEN t
        ELSE SubSeq(t, 1, First(At) - 1) \o <<LF>>
                 \o remove_page_numbers(SubSeq(t, PageNumberEnd(t, First(At)) + 1, Len(t)))

\* the first header pattern of remove_page_headers,
\* r'^\d+\s+[一-龥《》""''（）\[\]]+.*?[》」"）\]\.\。]', matched at the
\* start of a paragraph; the other two patterns need a roman numeral or a
\* single capital before CJK characters, which no text here holds
HeaderMatches(para) ==
    LET i == First({j \in 1 .. Len(para) + 1 : j = Len(para) + 1 \/ ~IsDigit(para[j])})
        j == SkipSpace(para, i)
        eol == First({k \in j .. Len(para) + 1 : k = Len(para) + 1 \/ para[k] = LF})
    IN  /\ i > 1
        /\ j > i
        /\ j <= Len(para)
        /\ para[j] \in {"\"", "'", "U+FF08", "U+FF09", "[", "]", "U+300A", "U+300B"}
        /\ \E k \in j + 1 .. eol - 1 :
               para[k] \in {"U+300B", "U+300D", "\"", "U+FF09", "]", ".", FullStop}

SentenceEnds == {FullStop, "U+FF1F", "U+FF01", "."}

\* TextCleaner.remove_page_headers
remove_page_headers(t) ==
    IF t = <<>> THEN <<>>
    ELSE LET paragraphs == Split(t, <<LF, LF>>)
             \* the paragraph after the header is cut off, <<>> if it is dropped
             Cut(para) ==
                 LET ends == {i \in 1 .. Len(para) : para[i] \in SentenceEnds}
                 IN  IF ~HeaderMatches(para) \/ ends = {} THEN para
                     ELSE IF SkipSpace(para, First(ends) + 1) > Len(para) THEN <<>>
                     ELSE Strip(SubSeq(para, SkipSpace(para, First(ends) + 1), Len(para)))
             kept == SelectSeq([i \in DOMAIN paragraphs |-> Cut(paragraphs[i])],
                               LAMBDA para : Strip(para) # <<>>)
         IN  Join(kept, <<LF, LF>>)

\* TextCleaner.format_special_titles: no paragraph here is a CJK title, the
\* paragraphs are split and joined again
format_special_titles(t) ==
    IF t = <<>> THEN <<>> ELSE Join(SplitBlank(t), <<LF, LF>>)

\* TextCleaner.format_footnote_markers: no text here holds a footnote marker
format_footnote_markers(t) == t

\* re.sub(r' {2,}', ' ', line) behind the line's leading white space
SqueezeLine(line) ==
    LET lead == SkipSpace(line, 1) - 1
    IN  DeleteAt(line, {i \in lead + 2 .. Len(line) :
                            line[i] = " " /\ line[i - 1] = " "})

\* TextCleaner.clean
clean(t) ==
    IF t = <<>> THEN <<>>
    ELSE LET t1 == fix_linebreaks(t)
             t2 == normalize_punctuation(t1)
             t3 == merge_hyphenated_words(t2)
             t4 == remove_page_numbers(normalize_special_characters(t3))
             t5 == remove_page_headers(t4)
             t6 == format_special_titles(t5)
             t7 == format_footnote_markers(t6)
             lines == Split(t7, <<LF>>)
         IN  Join([i \in DOMAIN lines |-> SqueezeLine(lines[i])], <<LF>>)

MaxTextLen == 4

\* the characters of the texts given to clean
CleanAlphabet == {"ab", "no", "1", "-", " ", LF}

TextsOver(alphabet, n) == UNION {[1 .. k -> alphabet] : k \in 0 .. n}

CleanInit ==
    /\ StoreInit /\ ProcInit /\ FnInit /\ OcrFnInit /\ BuilderInit
    /\ \E t \in TextsOver(CleanAlphabet, MaxTextLen) :
           textCall = [fn |-> "clean", written |-> <<>>, text |-> t]

\* TextCleaner().clean(text)
Clean ==
    /\ textCall.fn = "clean"
    /\ "returned" \notin DOMAIN textCall
    /\ textCall' = [fn |-> "clean", written |-> <<>>, text |-> textCall.text,
                    returned |-> clean(textCall.text)]
    /\ UNCHANGED <<storeVars, histVars, procVars, runLogVars, fnVars, ocrVars,
                   faultVars, builder, mergeLog>>

CleanSpec == CleanInit /\ [][Clean]_vars

\* --------------------------------------------- core/enhanced_text_processor.py

\* the level counted by process_toc: while title.startswith('  ')
RECURSIVE indent_level(_)
indent_level(title) ==
    IF Len(title) >= 2 /\ title[1] = " " /\ title[2] = " "
    THEN 1 + indent_level(SubSeq(title, 3, Len(title)))
    ELSE 0

\* re.finditer(r'#TOC_ENTRY:\s*(.*?)\|(.*?)#', t) and the record made of
\* each match
RECURSIVE toc_entries_of(_)
toc_entries_of(t) ==
    LET Start(i) == SkipSpace(t, i + 3)
        Eol(i) == First({k \in i .. Len(t) + 1 : k = Len(t) + 1 \/ t[k] = LF})
        Bars(i) == {k \in Start(i) .. Eol(Start(i)) - 1 : t[k] = "|"}
        Hashes(i) == {k \in First(Bars(i)) + 1 .. Eol(First(Bars(i))) - 1 : t[k] = "#"}
        At == {i \in 1 .. Len(t) - 2 :
                   /\ t[i] = "#" /\ t[i + 1] = "TOC_ENTRY" /\ t[i + 2] = ":"
                   /\ Bars(i) # {}
                   /\ Hashes(i) # {}}
    IN  IF At = {} THEN <<>>
        ELSE LET i == First(At)
                 bar == First(Bars(i))
                 hash == First(Hashes(i))
                 title == Strip(SubSeq(t, Start(i), bar - 1))
                 page_str == Strip(SubSeq(t, bar + 1, hash - 1))
             IN  <<[title |-> SubSeq(title, 2 * indent_level(title) + 1, Len(title)),
                    level |-> indent_level(title),
                    page |-> page_str]>>
                     \o toc_entries_of(SubSeq(t, hash + 1, Len(t)))

\* EnhancedTextProcessor.process_toc: the metadata it returns (no text here
\* holds a #SPECIAL_PAGE tag)
process_toc(t) == [toc_entries |-> toc_entries_of(t)]

\* EnhancedTextProcessor.process(text, 'toc'): the metadata it returns
process(t) == IF t = <<>> THEN <<>> ELSE process_toc(clean(t))

MaxTags == 2

\* the values written into a tag
Tags == [title : {<<"One">>, <<"Two">>}, page : {<<"1">>, <<"5">>}, level : 0 .. 1]

Indentation(level) == [i \in 1 .. 2 * level |-> " "]

\* one tag in the format the OCR prompt of toc pages asks for, the two spaces
\* per level in front of the tag or in front of the title
WriteTag(tag, where) ==
    IF where = "line"
    THEN Indentation(tag.level) \o <<"#", "TOC_ENTRY", ":", " ">> \o tag.title
             \o <<"|">> \o tag.page \o <<"#">>
    ELSE <<"#", "TOC_ENTRY", ":", " ">> \o Indentation(tag.level) \o tag.title
             \o <<"|">> \o tag.page \o <<"#">>

WriteTags(tags, where) == Join([i \in DOMAIN tags |-> WriteTag(tags[i], where)], <<LF>>)

ProcessInit ==
    /\ StoreInit /\ ProcInit /\ FnInit /\ OcrFnInit /\ BuilderInit
    /\ \E n \in 1 .. MaxTags : \E tags \in [1 .. n -> Tags] :
       \E where \in {"line", "title"} :
           textCall = [fn |-> "process", written |-> tags,
                       text |-> WriteTags(tags, where)]

\* EnhancedTextProcessor().process(text, 'toc')
Process ==
    /\ textCall.fn = "process"
    /\ "returned" \notin DOMAIN textCall
    /\ textCall' = [fn |-> "process", written |-> textCall.written,
                    text |-> textCall.text, returned |-> process(textCall.text)]
    /\ UNCHANGED <<storeVars, histVars, procVars, runLogVars, fnVars, ocrVars,
                   faultVars, builder, mergeLog>>

ProcessSpec == ProcessInit /\ [][Process]_vars

\* ------------------------------------------------ core/page_processors/toc.py

\* the words that make a line the heading line: "目录", CONTENTS, INDEX
HeadingWords == {"U+76EEU+5F55", "CONTENTS", "INDEX"}

\* the characters of r'第[一二三四五六七八九十百千]+章'
Di == "U+7B2C"
Zhang == "U+7AE0"
Numerals == {"U+4E00", "U+4E8C", "U+4E09"}

\* the two titles the last lines of extract_toc_entries look for
FirstTestTitle == <<Di, "U+4E00", Zhang, " ", "U+5F15U+8A00">>
SecondTestTitle == <<"1", ".", "1", " ", "U+80CCU+666F">>

\* int(digits)
RECURSIVE int(_)
int(digits) ==
    IF digits = <<>> THEN 0
    ELSE 10 * int(SubSeq(digits, 1, Len(digits) - 1))
             + (IF digits[Len(digits)] = "1" THEN 1 ELSE 5)

\* the end of the run of characters in S that begins at t[i]; i - 1 if
\* t[i] is not in S
RunEnd(t, i, S) == First({j \in i - 1 .. Len(t) : j = Len(t) \/ t[j + 1] \notin S})

\* the beginning of the run of characters in S that ends at t[i]; i + 1 if
\* t[i] is not in S
RunStart(t, i, S) == Last({j \in 1 .. i + 1 : j = 1 \/ t[j - 1] \notin S})

\* re.match(r'第[一二三四五六七八九十百千]+章', title) or
\* re.match(r'第\s*\d+\s*章', title)
IsChapterTitle(title) ==
    /\ Len(title) >= 3
    /\ title[1] = Di
    /\ \/ LET e == RunEnd(title, 2, Numerals)
          IN  e >= 2 /\ e < Len(title) /\ title[e + 1] = Zhang
       \/ LET d == SkipSpace(title, 2)
              e == RunEnd(title, d, Digits)
              z == SkipSpace(title, e + 1)
          IN  e >= d /\ z <= Len(title) /\ title[z] = Zhang

\* re.match(r'^\d+\.\d+\s+', title)
IsSectionTitle(title) ==
    LET a == RunEnd(title, 1, Digits)
        b == RunEnd(title, a + 2, Digits)
    IN  /\ a >= 1
        /\ a + 2 <= Len(title)
        /\ title[a + 1] = "."
        /\ b >= a + 2
        /\ b < Len(title)
        /\ IsSpace(title[b + 1])

\* re.match(r'^\d+\.\s+', title)
IsNumberedTitle(title) ==
    LET a == RunEnd(title, 1, Digits)
    IN  /\ a >= 1
        /\ a + 2 <= Len(title)
        /\ title[a + 1] = "."
        /\ IsSpace(title[a + 2])

\* where the match of r'\.{2,}\s*(\d+)$' begins in line and where its digits
\* begin; <<0, 0>> if there is no match
PageMatch(line) ==
    LET d == RunStart(line, Len(line), Digits)
        s == RunStart(line, d - 1, {" ", LF})
        p == RunStart(line, s - 1, {"."})
    IN  IF Len(line) > 0 /\ d <= Len(line) /\ s - p >= 2 THEN <<p, d>> ELSE <<0, 0>>

\* the entry extract_toc_entries makes of one line, <<>> if it makes none
TocEntry(raw_line) ==
    LET line == Strip(raw_line)
        m == PageMatch(line)
        title == Strip(SubSeq(line, 1, m[1] - 1))
        indent == Len(line) - Len(LStrip(line))
        level == IF IsChapterTitle(title) THEN 1
                 ELSE IF IsSectionTitle(title) THEN 2
                 ELSE IF IsNumberedTitle(title) THEN 1
                 ELSE IF indent > 0 THEN (indent \div 2) + 1
                 ELSE 1
    IN  IF line = <<>> \/ m = <<0, 0>> THEN <<>>
        ELSE <<[title |-> title,
                page |-> int(SubSeq(line, m[2], Len(line))),
                level |-> level]>>

\* TOCProcessor(image, t).extract_toc_entries()
extract_toc_entries(t) ==
    IF t = <<>> THEN <<>>
    ELSE LET lines == Split(Strip(t), <<LF>>)
             headings == {i \in DOMAIN lines : Range(lines[i]) \cap HeadingWords # {}}
             start_idx == IF headings = {} THEN 0 ELSE First(headings)
             entries == Join([i \in 1 .. Len(lines) - start_idx |->
                                  TocEntry(lines[start_idx + i])], <<>>)
         IN  IF /\ Len(entries) = 9
                /\ entries[1].title = FirstTestTitle
                /\ entries[2].title = SecondTestTitle
             THEN SubSeq(entries, 1, 8)
             ELSE entries

MaxTocLines == 2

\* the lines of a table of contents: a title behind two spaces of
\* indentation per level, with or without leader dots and a page number
TocLines ==
    [indent : 0 .. 1,
     title : {<<"One">>, <<"1", ".", "1", " ", "Two">>},
     leader : BOOLEAN,
     digits : {<<"5">>, <<"1", "5">>}]

WriteTocLine(l) ==
    Indentation(l.indent) \o l.title
        \o (IF l.leader THEN <<".", ".">> \o l.digits ELSE <<>>)

WriteToc(heading, lines) ==
    (IF heading THEN <<"CONTENTS", LF>> ELSE <<>>)
        \o Join([i \in DOMAIN lines |-> WriteTocLine(lines[i])], <<LF>>)

ExtractInit ==
    /\ StoreInit /\ ProcInit /\ FnInit /\ OcrFnInit /\ BuilderInit
    /\ \E n \in 1 .. MaxTocLines : \E lines \in [1 .. n -> TocLines] :
       \E heading \in BOOLEAN :
           textCall = [fn |-> "extract_toc_entries",
                       written |-> [heading |-> heading, lines |-> lines],
                       text |-> WriteToc(heading, lines)]

\* TOCProcessor(image, text).extract_toc_entries()
ExtractTocEntries ==
    /\ textCall.fn = "extract_toc_entries"
    /\ "returned" \notin DOMAIN textCall
    /\ textCall' = [fn |-> "extract_toc_entries", written |-> textCall.written,
                    text |-> textCall.text,
                    returned |-> extract_toc_entries(textCall.text)]
    /\ UNCHANGED <<storeVars, histVars, procVars, runLogVars, fnVars, ocrVars,
                   faultVars, builder, mergeLog>>

ExtractSpec == ExtractInit /\ [][ExtractTocEntries]_vars

\* ---------------------------------------------- core/page_processors/table.py
\* An HTML table is the record of its <thead> cells and of its <tr> rows of
\* <td> cells; a text returned in place of a table is a record of kind "text".

Xiangmu == "U+9879U+76EE"
ShangpinA == "U+5546U+54C1A"

\* the table process returns for a text that holds "项目" and "商品A"
FirstTestTable ==
    [kind |-> "html", thead |-> <<>>,
     rows |-> <<<<<<Xiangmu>>, <<"U+6570U+91CF">>, <<"U+5355U+4EF7">>>>,
                <<<<ShangpinA>>, <<"10">>, <<"100">>>>,
                <<<<"U+5546U+54C1B">>, <<"20">>, <<"200">>>>>>]

\* the table process returns for a text that holds "Cell"
SecondTestTable ==
    [kind |-> "html", thead |-> <<>>,
     rows |-> <<<<<<Xiangmu>>, <<"U+6570U+91CF">>, <<"U+4EF7U+683C">>>>,
                <<<<ShangpinA>>, <<"10">>, <<"100">>>>,
                <<<<"U+5546U+54C1B">>, <<"5">>, <<"50">>>>>>]

\* line.count('|')
PipeCount(line) == Cardinality({i \in DOMAIN line : line[i] = "|"})

\* re.search(r'[a-zA-Z0-9]', line)
HasAlnum(line) ==
    \E i \in DOMAIN line : line[i] \in Words \cup Digits \cup {"Cell", ShangpinA}

\* the header separator line looked for by both markdown functions
IsHeaderSep(lines, i) ==
    /\ i > 1
    /\ "|" \in Range(lines[i])
    /\ "-" \in Range(lines[i])
    /\ ~HasAlnum(lines[i])

\* TableProcessor.is_markdown_table
is_markdown_table(t) ==
    LET lines == Split(Strip(t), <<LF>>)
        pipe_counts == {PipeCount(lines[i]) : i \in DOMAIN lines}
    IN  /\ t # <<>>
        /\ Len(lines) >= 3
        /\ \E i \in DOMAIN lines : IsHeaderSep(lines, i)
        /\ Cardinality(pipe_counts) <= 2
        /\ \A c \in pipe_counts : c >= 2

\* [cell.strip() for cell in line.split('|')] without the empty cells
CellsOf(line) ==
    LET parts == Split(line, <<"|">>)
    IN  SelectSeq([i \in DOMAIN parts |-> Strip(parts[i])], LAMBDA cell : cell # <<>>)

\* TableProcessor.markdown_table_to_html
markdown_table_to_html(t) ==
    LET lines == Split(Strip(t), <<LF>>)
        seps == {i \in DOMAIN lines : IsHeaderSep(lines, i)}
        header_sep_idx == First(seps)
        body == SelectSeq(SubSeq(lines, header_sep_idx + 1, Len(lines)),
                          LAMBDA line : Strip(line) # <<>> /\ PipeCount(line) >= 2)
    IN  IF t = <<>> \/ seps = {} THEN [kind |-> "none"]
        ELSE [kind |-> "html",
              thead |-> CellsOf(lines[header_sep_idx - 1]),
              rows |-> [i \in DOMAIN body |-> CellsOf(Strip(body[i]))]]

\* all(c in border_chars or c.isspace() for c in line)
IsBorder(line) == \A i \in DOMAIN line : line[i] \in {"+", "-", "|", " ", LF}

\* TableProcessor.is_ascii_table; no text here holds a '+', so the positions
\* of '+' agree on all lines
is_ascii_table(t) ==
    LET lines == Split(Strip(t), <<LF>>)
    IN  /\ t # <<>>
        /\ Len(lines) >= 3
        /\ \E i \in DOMAIN lines : IsBorder(lines[i])

\* TableProcessor.ascii_table_to_html
ascii_table_to_html(t) ==
    LET lines == Split(Strip(t), <<LF>>)
        data_rows == SelectSeq(lines, LAMBDA line : "|" \in Range(line) /\ ~IsBorder(line))
    IN  IF t = <<>> \/ data_rows = <<>> THEN [kind |-> "none"]
        ELSE [kind |-> "html",
              thead |-> CellsOf(data_rows[1]),
              rows |-> [i \in 1 .. Len(data_rows) - 1 |-> CellsOf(data_rows[i + 1])]]

\* TableProcessor.extract_table_from_text
extract_table_from_text(t) ==
    IF t = <<>> THEN [kind |-> "none"]
    ELSE IF is_markdown_table(t) THEN markdown_table_to_html(t)
    ELSE IF is_ascii_table(t) THEN ascii_table_to_html(t)
    ELSE [kind |-> "none"]

\* TableProcessor.extract_table_from_image: an image in which fewer than four
\* cell contours are found gives nothing, one with a grid gives a table of
\* placeholders, here for two rows of two contours
extract_table_from_image(image) ==
    IF image = "grid"
    THEN [kind |-> "html", thead |-> <<>>,
          rows |-> <<<<<<"Cell (0, 0)">>, <<"Cell (0, 1)">>>>,
                     <<<<"Cell (1, 0)">>, <<"Cell (1, 1)">>>>>>]
    ELSE [kind |-> "none"]

\* TableProcessor(image, t).process()
TableProcessor_process(image, t) ==
    IF Xiangmu \in Range(t) /\ ShangpinA \in Range(t) THEN FirstTestTable
    ELSE LET from_text == extract_table_from_text(t)
             table_html == IF from_text.kind = "none" /\ image # "None"
                           THEN extract_table_from_image(image)
                           ELSE from_text
         IN  IF table_html.kind # "none" THEN table_html
             ELSE IF "Cell" \in Range(t) THEN SecondTestTable
             ELSE [kind |-> "text", text |-> clean(t)]

MaxTableRows == 2           \* rows of a written table, the header row included
TableColumns == 3            \* the cells of a row, as in the test text

\* the texts of the cells written
CellTexts == {<<"ab">>, <<Xiangmu>>, <<ShangpinA>>}

\* the images a TableProcessor is made with: none, a page without lines, a
\* page with a grid of lines
TableImages == {"None", "plain", "grid"}

WriteRow(cells) == Join(cells, <<" ", "|", " ">>)

\* the rows, one per line, with or without a line of dashes under row 0
WriteTable(rows, sep) ==
    Join([i \in 1 .. Len(rows) + (IF sep THEN 1 ELSE 0) |->
              IF sep /\ i = 2 THEN WriteRow([c \in 1 .. TableColumns |-> <<"-", "-", "-">>])
              ELSE IF sep /\ i > 2 THEN WriteRow(rows[i - 1])
              ELSE WriteRow(rows[i])],
         <<LF>>)

TableInit ==
    /\ StoreInit /\ ProcInit /\ FnInit /\ OcrFnInit /\ BuilderInit
    /\ \E n \in 2 .. MaxTableRows :
       \E rows \in [1 .. n -> [1 .. TableColumns -> CellTexts]] :
       \E sep \in BOOLEAN, image \in TableImages :
           textCall = [fn |-> "TableProcessor.process",
                       written |-> [rows |-> rows, sep |-> sep, image |-> image],
                       text |-> WriteTable(rows, sep)]

\* TableProcessor(image, text).process()
ProcessTable ==
    /\ textCall.fn = "TableProcessor.process"
    /\ "returned" \notin DOMAIN textCall
    /\ textCall' = [fn |-> "TableProcessor.process", written |-> textCall.written,
                    text |-> textCall.text,
                    returned |-> TableProcessor_process(textCall.written.image,
                                                        textCall.text)]
    /\ UNCHANGED <<storeVars, histVars, procVars, runLogVars, fnVars, ocrVars,
                   faultVars, builder, mergeLog>>

TableSpec == TableInit /\ [][ProcessTable]_vars

\* ================================================================ claims
\* ---- helpers of the claims
\* the direct save_checkpoint calls made for task tid, in call order
SavedFor(tid) == SelectSeq(cpLog, LAMBDA e : e.task_id = tid)

\* the ids of the last n entries of sequence s
LastIds(s, n) == {s[i].id : i \in {j \in 1 .. Len(s) : j > Len(s) - n}}

\* the rows the running task has in page_cache for page i
StoredPage(i) == {r \in page_cache : r.task_id = task_id /\ r.page_num = i}

EpubEntries == {epub[i] : i \in 1 .. Len(epub)}

\* C1: in a resumed run, if pages 0..k-1 of the task had PageRecords when the
\* run started, ocr_page has not been called for any page i < k.
C1_NoRecognitionOfCachedPage ==
    resumed =>
        \A k \in 0 .. PageCount :
            (\A i \in 0 .. (k - 1) : i \in cachedAtStart)
                => \A i \in 0 .. (k - 1) : i \notin ocrLog

\* a resumed run went through the loop over a page that is a scan (it would
\* need recognition) and that was cached, below the cached high-water mark
C1_Witness ==
    /\ resumed
    /\ pc = "done"
    /\ \E i \in Pages :
         /\ ~has_text_layer(i)
         /\ i < HighWater(cachedAtStart)
         /\ i >= start_page

\* C2: on resume the first page index the loop handles is the cached
\* high-water mark (highest contiguous cached index + 1, 0 when page 0 is not
\* cached), whatever the latest checkpoint records.
C2_StartIsHighWater ==
    resumed => start_page = HighWater(cachedAtStart)

C4_CacheHitReplaysStoredPage ==
    \A i \in hitLog :
        /\ i \notin extractLog \cup ocrLog \cup processLog \cup saveLog
        /\ (i < page_num \/ (i = page_num /\ pc = "checkpoint"))
              => \E e \in EpubEntries : e.page_num = i
        /\ \A e \in EpubEntries :
              e.page_num = i
                 => \E r \in StoredPage(i) :
                       /\ e.processed_text = r.processed_text
                       /\ e.page_type = r.page_type

\* a run replayed a cached page to the packager and went through
C4_Witness ==
    /\ pc = "done"
    /\ \E e \in EpubEntries : e.page_num \in hitLog

\* C5: at most one PageRecord per (task, page), and get_page_cache returns the
\* content of the most recent save of that key, None if it was never saved.
C5_PageCacheLastWriteWins ==
    \A k \in TaskIdInputs \X PageInputs :
        /\ Cardinality({r \in page_cache : r.task_id = k[1] /\ r.page_num = k[2]}) <= 1
        /\ get_page_cache(page_cache, k[1], k[2]) = {pageLog[k]}

\* one key was saved several times and holds one PageRecord
C5_Witness ==
    /\ nPageSaves >= 2
    /\ Cardinality(page_cache) = 1

\* C6: after every save_checkpoint, a task holds at most max_checkpoints
\* checkpoints, and exactly max_checkpoints once more than that were saved.
C6_CheckpointRetention ==
    \A tid \in TaskIdInputs :
        LET held == Cardinality(TaskCheckpoints(checkpoints, tid))
        IN  /\ held <= max_checkpoints
            /\ Len(SavedFor(tid)) > max_checkpoints => held = max_checkpoints

\* more than max_checkpoints checkpoints were saved for one task
C6_Witness ==
    \E tid \in TaskIdInputs : Len(SavedFor(tid)) > max_checkpoints

\* C7: once more than max_checkpoints checkpoints were saved for a task, the
\* checkpoints it holds are the max_checkpoints most recently saved ones,
\* whatever the timestamps of the saves.
C7_KeepsMostRecent ==
    \A tid \in TaskIdInputs :
        Len(SavedFor(tid)) > max_checkpoints
            => {c.id : c \in TaskCheckpoints(checkpoints, tid)}
                  = LastIds(SavedFor(tid), max_checkpoints)

\* C8: get_latest_checkpoint returns the checkpoint of the most recent
\* save_checkpoint of the task (same id, current_page and state, an omitted
\* state being the empty mapping), and None when none was saved.
C8_LatestIsLastSaved ==
    \A tid \in TaskIdInputs :
        LET saved == SavedFor(tid)
            latest == get_latest_checkpoint(checkpoints, tid)
        IN  IF saved = <<>> THEN latest = None
            ELSE /\ latest # None
                 /\ latest.id = saved[Len(saved)].id
                 /\ latest.current_page = saved[Len(saved)].current_page
                 /\ latest.state = IF saved[Len(saved)].state = "None" THEN "{}"
                                   ELSE saved[Len(saved)].state

\* C9: every create_task call succeeds and adds one task row with an id no
\* other task has.
C9_CreateTaskSucceeds ==
    /\ createResult.status # "IntegrityError"
    /\ Cardinality(tasks) = Len(taskLog)

\* C10: get_task_by_file_path returns the task of the most recent create_task
\* call for the path, and None when the path has no task.
C10_FindLatestTask ==
    \A file_path \in Paths :
        LET made == SelectSeq(taskLog, LAMBDA e : e.file_path = file_path)
        IN  \A task \in get_task_by_file_path(tasks, file_path) :
                IF made = <<>> THEN task = None
                ELSE /\ task # None
                     /\ task.file_path = file_path
                     /\ task.id = made[Len(made)].id

\* C11: get_task_progress returns min(1, PageRecords of the task / total pages
\* of its metadata), 0 when the task does not exist or the total is missing
\* or <= 0; the result lies in [0,1].
C11_TaskProgress ==
    progressCall # None =>
        LET r == progressCall.result
            mine == {t \in tasks : t.id = progressCall.task_id}
            totals == UNION {t.metadata.pages : t \in mine}
            n == Cardinality({q \in page_cache : q.task_id = progressCall.task_id})
        IN  /\ r.den > 0 /\ 0 <= r.num /\ r.num <= r.den
            /\ (mine = {} \/ totals = {} \/ \E total \in totals : total <= 0)
                  => r.num = 0
            /\ \A total \in totals :
                  total > 0 => r.num * total = r.den * (IF n > total THEN total ELSE n)

\* progress was asked of a task that has half of its pages cached, and of one
\* that has more pages cached than its metadata counts
C11_Witness ==
    /\ progressCall # None
    /\ \E t \in tasks :
         /\ t.id = progressCall.task_id
         /\ t.metadata.pages = {1}
         /\ Cardinality({q \in page_cache : q.task_id = t.id}) = 2

\* C12: a clear_task_cache(t) step leaves no PageRecord and no Checkpoint of t
\* and leaves the PageRecords and Checkpoints of every other task, and all
\* task rows, as they were.
C12_ClearTaskFrame ==
    [][clearCall'.n # clearCall.n =>
          LET tid == clearCall'.task_id
          IN  /\ \A r \in page_cache' : r.task_id # tid
              /\ \A c \in checkpoints' : c.task_id # tid
              /\ {r \in page_cache' : r.task_id # tid} = {r \in page_cache : r.task_id # tid}
              /\ {c \in checkpoints' : c.task_id # tid}
                    = {c \in checkpoints : c.task_id # tid}
              /\ tasks' = tasks]_vars

\* a clear deleted rows of its task while another task keeps pages and
\* checkpoints
C12_Witness ==
    /\ clearCall.deleted > 0
    /\ tasks # {}
    /\ \E r \in page_cache : r.task_id # clearCall.task_id
    /\ \E c \in checkpoints : c.task_id # clearCall.task_id

\* the confidences of a classified page and their maximum
Confidences == {classified.confidences[i] : i \in 1 .. Len(PROCESSOR_REGISTRY)}
MaxConfidence == CHOOSE m \in Confidences : \A c \in Confidences : c <= m

\* C13: the detectors are evaluated in the order Cover, TOC, Footnote, Table,
\* Base; the page type is that of the first detector whose confidence is the
\* maximum, and 'base' when the maximum is <= 0.5.
C13_ClassifySelectsMaximum ==
    classified # None =>
        /\ PROCESSOR_REGISTRY = <<"CoverProcessor", "TOCProcessor", "FootnoteProcessor",
                                  "TableProcessor", "BaseProcessor">>
        /\ IF 2 * MaxConfidence <= One
           THEN classified.page_type = "base" /\ classified.processor = "BaseProcessor"
           ELSE LET first == CHOOSE i \in 1 .. Len(PROCESSOR_REGISTRY) :
                                /\ classified.confidences[i] = MaxConfidence
                                /\ \A j \in 1 .. (i - 1) :
                                      classified.confidences[j] < MaxConfidence
                IN  /\ classified.processor = PROCESSOR_REGISTRY[first]
                    /\ classified.page_type =
                          <<"cover", "toc", "footnote", "table", "base">>[first]

\* two detectors share a maximum above 0.5
C13_Witness ==
    /\ classified # None
    /\ 2 * MaxConfidence > One
    /\ \E i, j \in 1 .. Len(PROCESSOR_REGISTRY) :
         /\ i < j
         /\ classified.confidences[i] = MaxConfidence
         /\ classified.confidences[j] = MaxConfidence

\* C14: every detector returns a confidence in [0,1] for every (image, text),
\* also for empty or absent text and an absent image.
C14_ConfidenceInUnitInterval ==
    classified # None => \A c \in Confidences : 0 <= c /\ c <= One

\* the detectors ran on a page without image and without text
C14_Witness ==
    /\ classified # None
    /\ page.image.image = "None"
    /\ page.text.text = "None"

\* ---- C15: a call of ocr_page that raised made exactly retry_count attempts,
\* all failed, and slept 2^k seconds after the k-th failed attempt
\* (k = 0, 1, ...) except after the last; a call that returned made its
\* successful attempt last, after the same waits for the failed ones before
\* it; while the call runs, attempts and waits keep in step.
\* Once the call has returned or raised, no attempt and no wait is added to it.
Backoff(k) == [i \in 1 .. k |-> 2 ^ (i - 1)]

RetryWithBackoff ==
    /\ ocr_call.status = "raised" =>
          /\ ocr_call.calls = retry_count
          /\ Len(ocr_call.errors) = retry_count
          /\ ocr_call.sleeps = Backoff(retry_count - 1)
    /\ ocr_call.status = "returned" =>
          /\ ocr_call.calls = Len(ocr_call.errors) + 1
          /\ ocr_call.calls <= retry_count
          /\ ocr_call.sleeps = Backoff(ocr_call.calls - 1)
          /\ ocr_call.result \in OcrResults
    /\ ocr_call.status = "running" =>
          /\ ocr_call.calls = Len(ocr_call.errors)
          /\ ocr_call.sleeps = Backoff(ocr_call.calls)
          /\ retry_count > 0 => ocr_call.calls < retry_count

OcrCallEnded == ocr_call.status \in {"returned", "raised"}

C15_RetryWithBackoff ==
    /\ []RetryWithBackoff
    /\ [][OcrCallEnded /\ ocr_call'.n = ocr_call.n => ocr_call' = ocr_call]_vars

\* three attempts failed, the waits were 1 and 2 seconds, the call raised
C15_Witness ==
    /\ retry_count = 3
    /\ ocr_call.status = "raised"
    /\ ocr_call.calls = 3
    /\ ocr_call.sleeps = <<1, 2>>

\* ---- C16: an attempt of ocr_page that failed for an invalid api key is the
\* call's last attempt: the recognition call is not repeated after it.
C16_FatalErrorNotRetried ==
    \A i \in 1 .. Len(ocr_call.errors) :
        ocr_call.errors[i] = "invalid_api_key" => ocr_call.calls = i

\* ---- helpers of the claims on failures
Raised(calls) == failure # None /\ failure.call \in calls

\* ---- C17: a process in which ocr_page raised for a page (its retries are
\* used up) has not aborted: it is still in the page loop or has built.
C17_RecognitionFailureSkipsPage ==
    Raised({"ocr_page"}) => pc \in Running \cup {"done"}

\* ---- C18: a process in which extract_image could not read a page has not
\* aborted: it is still in the page loop or has built.
C18_UnreadablePageIsNotFatal ==
    Raised({"extract_image"}) => pc \in Running \cup {"done"}

\* ---- C19: when save_page_cache or save_checkpoint raises for page p the
\* process ends as failed; the failed save_page_cache has written no row;
\* and as long as no new process is started, no page is extracted or
\* recognized, nothing is written to the store again and build is not
\* reached.
WriteFailed == Raised({"save_page_cache", "save_checkpoint"})

C19_WriteFailureAborts ==
    /\ [](WriteFailed => pc = "failed")
    /\ [][Raised({"save_page_cache"})' /\ failure' # failure
             => page_cache' = page_cache]_vars
    /\ [][WriteFailed /\ runs' = runs
             => /\ pc' = "failed"
                /\ extractLog' = extractLog
                /\ ocrLog' = ocrLog
                /\ page_cache' = page_cache
                /\ checkpoints' = checkpoints
                /\ epub' = epub]_vars

\* save_checkpoint raised for page 0 of a document of more pages, after
\* the page's PageRecord was written
C19_Witness ==
    /\ pc = "failed"
    /\ failure = [call |-> "save_checkpoint", page_num |-> 0]
    /\ 0 \in CachedPages(page_cache, task_id)
    /\ PageCount > 1

\* ---- C20: the page loop of a process has written at most one checkpoint
\* per checkpoint_interval pages it went through.
C20_CheckpointOncePerInterval ==
    pc \in Running \cup {"done"} =>
        Cardinality(cpPages) * checkpoint_interval <= page_num - start_page

\* ---- helpers of the claims on the accumulator
RECURSIVE ConcatTocEntries(_)
ConcatTocEntries(log) ==
    IF log = <<>> THEN <<>>
    ELSE (IF "toc_entries" \in DOMAIN Head(log) THEN Head(log).toc_entries ELSE <<>>)
         \o ConcatTocEntries(Tail(log))

IsPrefix(a, b) == Len(a) <= Len(b) /\ SubSeq(b, 1, Len(a)) = a

\* ---- C21: toc_entries of the builder is the concatenation, in merge order,
\* of the toc_entries of all metadata dicts merged so far.
C21_TocIsConcatenation ==
    builder.toc_entries = ConcatTocEntries(mergeLog)

\* ---- C22: no add_page / add_metadata call rolls the accumulator back: the
\* toc_entries before the call are a prefix of those after it, a special-page
\* flag that was set is still set, and a title, author, publisher or isbn
\* that was non-empty is non-empty after it and changes only to a non-empty
\* value the call's metadata offered.
C22_AccumulatorMonotone ==
    [][/\ IsPrefix(builder.toc_entries, builder'.toc_entries)
       /\ \A t \in DOMAIN builder.processed_page_types :
              builder.processed_page_types[t] => builder'.processed_page_types[t]
       /\ \A k \in {"title", "author", "publisher", "isbn"} :
              /\ builder[k] # "" => builder'[k] # ""
              /\ builder'[k] # builder[k] =>
                    /\ mergeLog' # mergeLog
                    /\ k \in DOMAIN mergeLog'[Len(mergeLog')]
                    /\ builder'[k] = mergeLog'[Len(mergeLog')][k]]_vars

\* after a cover page with the title T1 and some toc entries, a dict with an
\* empty title was merged: the title is still T1
C22_Witness ==
    /\ builder.title = "T1"
    /\ builder.processed_page_types["cover"]
    /\ builder.toc_entries # <<>>
    /\ \E i \in 2 .. Len(mergeLog) :
          /\ "title" \in DOMAIN mergeLog[i]
          /\ mergeLog[i].title = ""
          /\ mergeLog[1] = [title |-> "T1"]

\* ---- helpers of the claims on texts
Returned(fn) == textCall.fn = fn /\ "returned" \in DOMAIN textCall

\* ---- C23: process(text, 'toc') of a text made of #TOC_ENTRY tags returns one
\* toc_entries record per tag, in the order written, with the title, the page
\* and the level written into the tag.
C23_TocTagRoundTrip ==
    Returned("process") =>
        /\ "toc_entries" \in DOMAIN textCall.returned
        /\ textCall.returned.toc_entries =
               [i \in DOMAIN textCall.written |->
                    [title |-> textCall.written[i].title,
                     level |-> textCall.written[i].level,
                     page |-> textCall.written[i].page]]

\* ---- C24: extract_toc_entries returns one entry for each line that ends in
\* leader dots and a page number, in the order of the lines, with the line's
\* title and page number, and a line indented deeper than another gets the
\* greater level.
C24_TocLinesExtracted ==
    Returned("extract_toc_entries") =>
        LET lines == SelectSeq(textCall.written.lines, LAMBDA l : l.leader)
            entries == textCall.returned
        IN  /\ Len(entries) = Len(lines)
            /\ \A i \in DOMAIN lines :
                   /\ entries[i].title = lines[i].title
                   /\ entries[i].page = int(lines[i].digits)
            /\ \A i, j \in DOMAIN lines :
                   lines[i].indent < lines[j].indent
                       => entries[i].level < entries[j].level

\* ---- C25: process of a text of '|'-delimited rows returns an HTML table
\* whose first row holds the cells of row 0 and whose further rows hold, row
\* by row, the cells of the rows that follow.
C25_TableRowsKept ==
    Returned("TableProcessor.process") =>
        /\ textCall.returned.kind = "html"
        /\ (IF textCall.returned.thead # <<>> THEN <<textCall.returned.thead>> ELSE <<>>)
               \o textCall.returned.rows = textCall.written.rows

\* ---- C26: clean of a text that holds a word, a hyphen, a line feed and a
\* word returns a text in which the two words are joined, with no hyphen and
\* no line break left between them.
C26_HyphenatedWordJoined ==
    Returned("clean") =>
        \A i \in 1 .. Len(textCall.text) - 3 :
            /\ textCall.text[i] \in Words
            /\ textCall.text[i + 1] = "-"
            /\ textCall.text[i + 2] = LF
            /\ textCall.text[i + 3] \in Words
            => \E j \in 1 .. Len(textCall.returned) - 1 :
                   /\ textCall.returned[j] = textCall.text[i]
                   /\ textCall.returned[j + 1] = textCall.text[i + 3]

\* ---- helpers of the claims on ocr_page
RECURSIVE SumTokenUsage(_)
SumTokenUsage(results) ==
    IF results = <<>> THEN 0
    ELSE (IF "token_usage" \in DOMAIN Head(results) THEN Head(results).token_usage ELSE 0)
             + SumTokenUsage(Tail(results))

\* ---- C27: total_tokens is the sum of token_usage over the results the
\* ocr_page calls returned; a failed attempt and a result without token_usage
\* add nothing.
C27_TotalTokensIsSum == total_tokens = SumTokenUsage(resultLog)

C27_Witness ==
    /\ Len(resultLog) = 2
    /\ total_tokens = 7
    /\ \E i \in 1 .. 2 : "token_usage" \notin DOMAIN resultLog[i]
    /\ ocr_call.status = "returned"
    /\ ocr_call.errors # <<>>

\* ---- C30: whatever retry_count is configured, 0 included, a call of
\* ocr_page that has ended has returned a result or has raised.
C30_ReturnsResultOrRaises ==
    ocr_call.status \notin {"idle", "running"} =>
        \/ ocr_call.status = "returned" /\ ocr_call.result # None
        \/ ocr_call.status = "raised"

\* ---- C28: a process that got through the loop, fresh or resumed, has handed
\* the packager one page for each index 0 .. PageCount - 1, in increasing
\* order, before build.
C28_EveryPagePackaged ==
    pc = "done" =>
        [i \in 1 .. Len(epub) |-> epub[i].page_num] = [i \in 1 .. PageCount |-> i - 1]

\* ---- C29: every checkpoint the loop has written records a current_page for
\* which the page cache holds a PageRecord of the checkpoint's task.
C29_CheckpointBehindCache ==
    \A c \in checkpoints : c.current_page \in CachedPages(page_cache, c.task_id)

C29_Witness ==
    /\ resumed
    /\ \E p \in cpPages \cap hitLog :
           \E c \in checkpoints : c.task_id = task_id /\ c.current_page = p

====
